---- MODULE Spec2Model ----
(***************************************************************************)
(* The view layer of the messaging client (src/src/views/view.ts) together *)
(* with the PostElement and ReplyBox components it drives.  The DOM is     *)
(* modelled by what the code observes of it: every element is an object    *)
(* with an identity, every <ul> is the ordered list of its children, and   *)
(* an element is the child of at most one list.  Objects that nothing      *)
(* references any more are dropped, as the JavaScript collector does.      *)
(***************************************************************************)
EXTENDS Integers, Sequences, FiniteSets, TLC

VARIABLES channel, view, applied, errorView, model, page

vars == <<channel, view, applied, errorView, model, page>>

\* the state outside the rendered posts: the error banner, the requests and
\* streams of the model, and the workspace and channel lists of the page
appVars == <<errorView, model, page>>

(***************************************************************************)
(* Bounds and input domains                                                *)
(***************************************************************************)

\* at most this many live objects (post elements and reply boxes)
MaxObjects == 4

\* the channels of the workspace and the posts each may contain: "order"
\* holds three top-level posts, "siblings" a post with two replies,
\* "chain" a post, a reply to it and a reply to that reply
Channels == {"order", "siblings", "chain"}

PostsOf(ch) ==
  CASE ch = "order" -> {"o1", "o2", "o3"}
    [] ch = "siblings" -> {"s1", "a1", "a2"}
    [] OTHER -> {"p1", "r1", "g1"}

\* doc.parent of each post ("" for a top-level post)
Parent(p) ==
  CASE p = "a1" -> "s1"
    [] p = "a2" -> "s1"
    [] p = "r1" -> "p1"
    [] p = "g1" -> "r1"
    [] OTHER -> ""

\* meta.createdAt of each post
CreatedAt(p) ==
  CASE p = "o1" -> 0
    [] p = "o2" -> 10
    [] p = "o3" -> 20
    [] p = "s1" -> 0
    [] p = "a1" -> 5
    [] p = "a2" -> 6
    [] p = "p1" -> 0
    [] p = "r1" -> 5
    [] p = "g1" -> 7
    [] OTHER -> 0

\* the logged-in user (loginDialog.getUsername()); "bob" is another user
CurrUser == "me"

\* meta.createdBy of each post
CreatedBy(p) == IF p \in {"o2", "a2", "g1"} THEN CurrUser ELSE "bob"

Kinds == {":smile:", ":frown:", ":like:", ":celebrate:"}

\* doc.reactions of a payload: absent, or an object holding a user array
\* for some of the kinds
NoRx == [present |-> FALSE, lists |-> <<>>]
RxObj(lists) == [present |-> TRUE, lists |-> lists]
RxMe == RxObj((":smile:" :> <<CurrUser>>))

(***************************************************************************)
(* Objects                                                                 *)
(***************************************************************************)

\* identities: <<"post", path, n>> is the n-th live PostElement of a path,
\* <<"box", path, n>> a ReplyBox whose parentPost is path
PostId(path, n) == <<"post", path, n>>
BoxId(path, n) == <<"box", path, n>>
IsPost(item) == item[1] = "post"
IsBox(item) == item[1] = "box"
Top == <<"top", "", 0>>
None == <<"none", "", 0>>
Null == "null"

getPath(e) == e[2]
getCreateDate(e) == CreatedAt(e[2])

Range(s) == {s[i] : i \in DOMAIN s}
Without(s, x) == SelectSeq(s, LAMBDA y : y # x)
InsertAt(s, i, x) == SubSeq(s, 1, i - 1) \o <<x>> \o SubSeq(s, i, Len(s))
IndexOf(s, x) == CHOOSE i \in DOMAIN s : s[i] = x

\* Map.get / Map.set / Map.has on activePosts and replyBuffer
MapHas(m, k) == k \in DOMAIN m
MapSet(m, k, val) == [x \in (DOMAIN m) \cup {k} |-> IF x = k THEN val ELSE m[x]]
EmptyMap == [x \in {} |-> None]

\* the children of a <ul>: the channel's top-level list or a post's replies
Children(v, owner) ==
  IF owner = Top THEN v.topLevel ELSE v.elems[owner].replies

SetChildren(v, owner, l) ==
  IF owner = Top
  THEN [v EXCEPT !.topLevel = l]
  ELSE [v EXCEPT !.elems[owner].replies = l]

Owners(v) == {Top} \cup DOMAIN v.elems

\* parentNode of a node (None when it is in no list)
OwnerOf(v, item) ==
  IF \E o \in Owners(v) : item \in Range(Children(v, o))
  THEN CHOOSE o \in Owners(v) : item \in Range(Children(v, o))
  ELSE None

\* Element.remove()
Remove(v, item) ==
  LET o == OwnerOf(v, item)
  IN IF o = None THEN v ELSE SetChildren(v, o, Without(Children(v, o), item))

\* ul.append(node): a node already in the document is moved
AppendChild(v, owner, item) ==
  LET v1 == Remove(v, item)
  IN SetChildren(v1, owner, Children(v1, owner) \o <<item>>)

\* target.insertAdjacentElement("beforebegin", node)
InsertBeforeBegin(v, target, item) ==
  LET v1 == Remove(v, item)
      o == OwnerOf(v1, target)
  IN IF o = None
     THEN v1
     ELSE SetChildren(v1, o,
            InsertAt(Children(v1, o), IndexOf(Children(v1, o), target), item))

\* the smallest copy number of a path not in use
FreeCopy(ids, kind, path) ==
  CHOOSE n \in 1..(Cardinality(ids) + 1) :
    /\ <<kind, path, n>> \notin ids
    /\ \A m \in 1..(n - 1) : <<kind, path, m>> \in ids

(***************************************************************************)
(* Reactions of a PostElement                                              *)
(***************************************************************************)

Includes(arr, x) == x \in Range(arr)

\* the part of the PostElement constructor that renders one reaction kind
ConstructKind(reactionsObj, k, currUser) ==
  IF reactionsObj.present
  THEN IF k \in DOMAIN reactionsObj.lists
       THEN [cnt |-> Len(reactionsObj.lists[k]),
             clicked |-> Includes(reactionsObj.lists[k], currUser),
             disabled |-> FALSE]
       ELSE [cnt |-> 0, clicked |-> FALSE, disabled |-> FALSE]
  ELSE [cnt |-> 0, clicked |-> FALSE, disabled |-> FALSE]

\* new PostElement(...): no replies, reply mode off, reactions rendered
NewPostElement(reactionsObj, currUser) ==
  [replies |-> <<>>,
   replyMode |-> FALSE,
   rx |-> [k \in Kinds |-> ConstructKind(reactionsObj, k, currUser)]]

\* renderReactions keeping the local mark of a button whose request is
\* pending when the server disagrees with it
RenderKindKeepsPending(btn, cnt, inKind) ==
  IF btn.disabled /\ btn.clicked # inKind
  THEN [cnt |-> cnt, clicked |-> btn.clicked, disabled |-> btn.disabled]
  ELSE [cnt |-> cnt, clicked |-> inKind, disabled |-> btn.disabled]

\* renderReactions enabling the button on every patch
RenderKindAlwaysEnables(btn, cnt, inKind) ==
  [cnt |-> cnt, clicked |-> inKind, disabled |-> FALSE]

\* PostElement.renderReactions for one kind
RenderKind(btn, cnt, inKind) ==
  IF btn.disabled /\ btn.clicked # inKind
  THEN [cnt |-> cnt, clicked |-> inKind, disabled |-> FALSE]
  ELSE [cnt |-> cnt, clicked |-> inKind, disabled |-> btn.disabled]

renderReactions(el, cnts, ins) ==
  [el EXCEPT !.rx = [k \in Kinds |-> RenderKind(el.rx[k], cnts[k], ins[k])]]

\* View.updateReactions reaching only a post whose node is in a list
updateReactionsAttachedOnly(v, newReactions, postId, username) ==
  LET cnts == [k \in Kinds |->
                 IF k \in DOMAIN newReactions THEN Len(newReactions[k]) ELSE 0]
      ins == [k \in Kinds |->
                 IF k \in DOMAIN newReactions
                 THEN Includes(newReactions[k], username)
                 ELSE FALSE]
  IN IF MapHas(v.activePosts, postId) /\ OwnerOf(v, v.activePosts[postId]) # None
     THEN LET t == v.activePosts[postId]
          IN [v EXCEPT !.elems[t] = renderReactions(v.elems[t], cnts, ins)]
     ELSE v

\* View.updateReactions
updateReactions(v, newReactions, postId, username) ==
  LET cnts == [k \in Kinds |->
                 IF k \in DOMAIN newReactions THEN Len(newReactions[k]) ELSE 0]
      ins == [k \in Kinds |->
                 IF k \in DOMAIN newReactions
                 THEN Includes(newReactions[k], username)
                 ELSE FALSE]
  IN IF MapHas(v.activePosts, postId)
     THEN LET t == v.activePosts[postId]
          IN [v EXCEPT !.elems[t] = renderReactions(v.elems[t], cnts, ins)]
     ELSE v

\* PostElement.react: the clicked button is disabled and a reactEvent sent
react(el, k) == [el EXCEPT !.rx[k].disabled = TRUE]

(***************************************************************************)
(* Reachability and collection of unreferenced objects                     *)
(***************************************************************************)

RECURSIVE Closure(_, _)
\* the nodes below a set of nodes, through the replies lists
Closure(v, S) ==
  LET next == S \cup UNION {Range(v.elems[e].replies) :
                              e \in {x \in S : IsPost(x) /\ x \in DOMAIN v.elems}}
  IN IF next = S THEN S ELSE Closure(v, next)

\* the nodes the user sees: those below the top-level list of the channel
\* content, when that content is attached to the content area
Displayed(v) ==
  IF v.contentAttached THEN Closure(v, Range(v.topLevel)) ELSE {}

\* objects still referenced from the View or from the lists it holds survive
Collect(v) ==
  LET live == Closure(v, Range(v.topLevel) \cup Range(v.activePosts)
                           \cup Range(v.replyBuffer))
      liveE == {x \in live : IsPost(x)} \cap DOMAIN v.elems
      liveB == ({x \in live : IsBox(x)} \cup {v.activeReplyBox}) \cap DOMAIN v.boxes
  IN [v EXCEPT !.elems = [e \in liveE |-> v.elems[e]],
               !.boxes = [b \in liveB |-> v.boxes[b]]]

WithinBounds(v) ==
  Cardinality(DOMAIN v.elems) + Cardinality(DOMAIN v.boxes) <= MaxObjects

(***************************************************************************)
(* View                                                                    *)
(***************************************************************************)

\* the View constructor: an unattached ChannelContent("no channel"), empty
\* maps, no reply cursor
InitView ==
  [elems |-> [e \in {} |-> NewPostElement(NoRx, CurrUser)],
   boxes |-> [b \in {} |-> [quitDisabled |-> FALSE]],
   topLevel |-> <<>>,
   contentAttached |-> FALSE,
   postBoxVisible |-> TRUE,
   activePosts |-> EmptyMap,
   replyBuffer |-> EmptyMap,
   activeReply |-> Null,
   activeReplyBox |-> None]

\* View.replyModeOff
replyModeOff(v, postId) ==
  LET v1 == [v EXCEPT !.postBoxVisible = TRUE]
  IN IF MapHas(v1.activePosts, postId)
     THEN LET targetPost == v1.activePosts[postId]
              v2 == [v1 EXCEPT !.elems[targetPost].replyMode = FALSE]
              v3 == IF v2.activeReplyBox # None
                    THEN Remove(v2, v2.activeReplyBox)
                    ELSE v2
          IN [v3 EXCEPT !.activeReply = Null, !.activeReplyBox = None]
     ELSE v1

\* View.replyModeOn
replyModeOn(v, postId) ==
  LET v1 == [v EXCEPT !.postBoxVisible = FALSE]
      v2 == IF v1.activeReply # Null /\ MapHas(v1.activePosts, v1.activeReply)
            THEN LET currReplyTarget == v1.activePosts[v1.activeReply]
                     c == [v1 EXCEPT !.elems[currReplyTarget].replyMode = FALSE]
                 IN IF c.activeReplyBox # None
                    THEN Remove(c, c.activeReplyBox)
                    ELSE c
            ELSE v1
  IN IF MapHas(v2.activePosts, postId)
     THEN LET targetPost == v2.activePosts[postId]
              replyBox == BoxId(postId, FreeCopy(DOMAIN v2.boxes, "box", postId))
              v3 == [v2 EXCEPT !.activeReply = postId,
                               !.activeReplyBox = replyBox,
                               !.boxes = MapSet(v2.boxes, replyBox,
                                                [quitDisabled |-> FALSE])]
          IN AppendChild(v3, targetPost, replyBox)
     ELSE v2

RECURSIVE ScanListAnyLater(_, _, _, _, _)
\* the forEach of insertPost without the comparison with earliestDate: the
\* last later post of the list is taken, not the earliest later one
ScanListAnyLater(newDate, postList, i, earliestDate, insertHere) ==
  IF i > Len(postList)
  THEN insertHere
  ELSE LET reply == postList[i]
           currDate == getCreateDate(reply)
       IN IF IsPost(reply) /\ newDate < currDate
          THEN ScanListAnyLater(newDate, postList, i + 1, <<currDate>>, reply)
          ELSE ScanListAnyLater(newDate, postList, i + 1, earliestDate,
                                insertHere)

RECURSIVE ScanListFromEqual(_, _, _, _, _)
\* the forEach of insertPost with a comparison that lets an equal date pass
ScanListFromEqual(newDate, postList, i, earliestDate, insertHere) ==
  IF i > Len(postList)
  THEN insertHere
  ELSE LET reply == postList[i]
           currDate == getCreateDate(reply)
       IN IF /\ IsPost(reply)
             /\ newDate <= currDate
             /\ (earliestDate = <<>> \/ currDate < earliestDate[1])
          THEN ScanListFromEqual(newDate, postList, i + 1, <<currDate>>, reply)
          ELSE ScanListFromEqual(newDate, postList, i + 1, earliestDate,
                                 insertHere)

RECURSIVE ScanList(_, _, _, _, _)
\* the forEach of insertPost: earliestDate is <<>> for Infinity
ScanList(newDate, postList, i, earliestDate, insertHere) ==
  IF i > Len(postList)
  THEN insertHere
  ELSE LET reply == postList[i]
           currDate == getCreateDate(reply)
       IN IF /\ IsPost(reply)
             /\ newDate < currDate
             /\ (earliestDate = <<>> \/ currDate < earliestDate[1])
          THEN ScanList(newDate, postList, i + 1, <<currDate>>, reply)
          ELSE ScanList(newDate, postList, i + 1, earliestDate, insertHere)

RECURSIVE insertPost(_, _, _, _)
\* View.insertPost
insertPost(v, newPostElement, parentPost, postList) ==
  LET insertHere == ScanList(getCreateDate(newPostElement), postList, 1, <<>>, None)
      v1 == IF insertHere # None
            THEN InsertBeforeBegin(v, insertHere, newPostElement)
            ELSE IF parentPost # None
                 THEN AppendChild(v, parentPost, newPostElement)
                 ELSE AppendChild(v, Top, newPostElement)
      newPostPath == getPath(newPostElement)
  IN IF MapHas(v1.replyBuffer, newPostPath)
     THEN insertPost(v1, v1.replyBuffer[newPostPath], newPostElement,
                     v1.elems[newPostElement].replies)
     ELSE v1

\* the element handleUpdate creates for a post that is not a reaction patch
NewElementOf(v, post) ==
  PostId(post.path, FreeCopy(DOMAIN v.elems, "post", post.path))

\* no update is taken for a reaction patch
IsReactionPatchNever(v, post) == FALSE

IsReactionPatch(v, post) == MapHas(v.activePosts, post.path) /\ post.rx.present

\* View.handleUpdate
handleUpdate(v, post, username) ==
  IF IsReactionPatch(v, post)
  THEN updateReactions(v, post.rx.lists, post.path, username)
  ELSE
    LET newPostElement == NewElementOf(v, post)
        v1 == [v EXCEPT
                 !.elems = MapSet(v.elems, newPostElement,
                                  NewPostElement(post.rx, username)),
                 !.activePosts = MapSet(v.activePosts, post.path, newPostElement)]
        parent == Parent(post.path)
    IN IF parent # "" /\ ~MapHas(v1.activePosts, parent)
       THEN [v1 EXCEPT !.replyBuffer = MapSet(v1.replyBuffer, parent, newPostElement)]
       ELSE
         LET parentPost == IF parent # "" THEN v1.activePosts[parent] ELSE None
             postList == IF parentPost # None
                         THEN v1.elems[parentPost].replies
                         ELSE v1.topLevel
             v2 == insertPost(v1, newPostElement, parentPost, postList)
         IN IF parent # "" /\ CreatedBy(post.path) = username
            THEN replyModeOff(v2, parent)
            ELSE v2

\* Object.keys(doc) of a fetched post
DocKeys(post) ==
  IF post.rx.present THEN <<"msg", "parent", "reactions">> ELSE <<"msg", "parent">>

\* JavaScript `prop in arr` on an array: true of its indices and of
\* "length", not of its values
InArray(prop, arr) ==
  prop \in {ToString(i - 1) : i \in DOMAIN arr} \cup {"length"}

\* the test that guards the nesting of a reply in displayChannelContent
IsNestedReply(post) ==
  InArray("parent", DocKeys(post)) /\ Parent(post.path) # ""

RECURSIVE Structure(_, _, _)
\* first loop of displayChannelContent: structuredPosts[i].children holds
\* the indices of the posts pushed into it
Structure(posts, i, structuredPosts) ==
  IF i > Len(posts)
  THEN structuredPosts
  ELSE LET pushed == structuredPosts \o <<[post |-> posts[i], children |-> <<>>]>>
           linked == IF IsNestedReply(posts[i])
                     THEN [j \in DOMAIN pushed |->
                             IF Parent(posts[i].path) = pushed[j].post.path
                             THEN [pushed[j] EXCEPT !.children = @ \o <<i>>]
                             ELSE pushed[j]]
                     ELSE pushed
       IN Structure(posts, i + 1, linked)

RECURSIVE createNestedPosts(_, _, _, _)
RECURSIVE NestChildren(_, _, _, _, _, _)
\* View.createNestedPosts: the view after it, and the element it returns
createNestedPosts(v, structuredPosts, i, username) ==
  LET post == structuredPosts[i].post
      newPostElement == NewElementOf(v, post)
      v1 == [v EXCEPT
               !.elems = MapSet(v.elems, newPostElement,
                                NewPostElement(post.rx, username)),
               !.activePosts = MapSet(v.activePosts, post.path, newPostElement)]
  IN [view |-> NestChildren(v1, structuredPosts, newPostElement,
                            structuredPosts[i].children, 1, username),
      element |-> newPostElement]

\* the forEach over post.children in createNestedPosts
NestChildren(v, structuredPosts, newPostElement, children, j, username) ==
  IF j > Len(children)
  THEN v
  ELSE LET r == createNestedPosts(v, structuredPosts, children[j], username)
       IN NestChildren(AppendChild(r.view, newPostElement, r.element),
                       structuredPosts, newPostElement, children, j + 1, username)

RECURSIVE RenderRoots(_, _, _, _)
\* second loop of displayChannelContent
RenderRoots(v, structuredPosts, i, username) ==
  IF i > Len(structuredPosts)
  THEN v
  ELSE IF Parent(structuredPosts[i].post.path) = ""
       THEN LET r == createNestedPosts(v, structuredPosts, i, username)
            IN RenderRoots(AppendChild(r.view, Top, r.element),
                           structuredPosts, i + 1, username)
       ELSE RenderRoots(v, structuredPosts, i + 1, username)

\* displayChannelContent without activePosts.clear()
displayChannelContentKeepsIndex(v, posts, username) ==
  LET cleared == Collect([v EXCEPT !.contentAttached = FALSE,
                                   !.topLevel = <<>>,
                                   !.postBoxVisible = TRUE])
      rendered == RenderRoots(cleared, Structure(posts, 1, <<>>), 1, username)
  IN [rendered EXCEPT !.contentAttached = TRUE]

\* View.displayChannelContent
displayChannelContent(v, posts, username) ==
  LET cleared == Collect([v EXCEPT !.contentAttached = FALSE,
                                   !.activePosts = EmptyMap,
                                   !.topLevel = <<>>,
                                   !.postBoxVisible = TRUE])
      rendered == RenderRoots(cleared, Structure(posts, 1, <<>>), 1, username)
  IN [rendered EXCEPT !.contentAttached = TRUE]

\* View.clearContentArea
clearContentArea(v) == [v EXCEPT !.contentAttached = FALSE]

\* PostElement.openReplyMode: the click handler of a post's Reply button
openReplyMode(v, e) ==
  IF v.elems[e].replyMode
  THEN v
  ELSE replyModeOn([v EXCEPT !.elems[e].replyMode = TRUE], getPath(e))

\* ReplyBox.quitReply: the click handler of a reply box's quit button
quitReply(v, b) ==
  IF v.boxes[b].quitDisabled
  THEN v
  ELSE replyModeOff([v EXCEPT !.boxes[b].quitDisabled = TRUE], b[2])

(***************************************************************************)
(* The state around the posts: events, error banner, model, lists          *)
(***************************************************************************)

\* a CustomEvent: its type and the fields of its detail that handlers read
\* (uuid is the dataset.id of a list item, 0 when the detail has none)
Event(type, ws, ch, uuid) ==
  [type |-> type, ws |-> ws, ch |-> ch, uuid |-> uuid,
   msg |-> "", isWorkspace |-> FALSE,
   post |-> "", kind |-> "", clicked |-> FALSE]

\* the reactEvent PostElement.react dispatches
ReactEvent(post, kind, clicked) ==
  [Event("reactEvent", "", "", 0) EXCEPT
     !.post = post, !.kind = kind, !.clicked = clicked]

NoEvent == Event("none", "", "", 0)

\* new CustomEvent(""): no listener is registered for it
EmptyEvent == Event("", "", "", 0)

\* ErrorView after its constructor. bound: the retry and cancel listeners
\* registered under the current controller's signal (the original event
\* and the reverse event they dispatch); plain: a cancel listener added by
\* show(), which no signal removes; timers: the live setTimeout timers by
\* id, timeoutId the id the field holds (0 for null; an id whose timer has
\* fired or was cleared behaves as null and is written 0); countdowns: the
\* timeRemaining of the running setInterval countdowns (intervals that stand
\* at the same number write the same text and are kept once)
InitErrorView ==
  [visible |-> FALSE,
   retryHidden |-> FALSE,
   bound |-> [on |-> FALSE, event |-> NoEvent, reverse |-> NoEvent],
   plain |-> FALSE,
   timeoutId |-> 0,
   timers |-> [i \in {} |-> NoEvent],
   countdowns |-> {}]

\* Model after a successful login: requests are the fetches in flight, sse
\* is the stream sseController aborts (0 for null), streams the open
\* subscription streams by id (the channel each delivers updates of)
InitModel ==
  [bearerToken |-> TRUE,
   requests |-> {},
   sse |-> 0,
   streams |-> [i \in {} |-> ""]]

\* the page around the content area: the items of the workspace and channel
\* lists, the channel controls (ChannelView) and the title of currContent
InitPage ==
  [workspaces |-> <<>>,
   channels |-> <<>>,
   channelViewEnabled |-> FALSE,
   currWorkspace |-> "",
   title |-> "no channel",
   loginOpen |-> FALSE]

InitApp ==
  /\ errorView = InitErrorView
  /\ model = InitModel
  /\ page = InitPage

(***************************************************************************)
(* The view driven by push updates, channel loads and clicks               *)
(***************************************************************************)

\* the push updates of a channel: every post without doc.reactions, and
\* the user's own reply a2 also with a reactions object
Updates(ch) ==
  {[path |-> p, rx |-> NoRx] : p \in PostsOf(ch)}
    \cup {[path |-> p, rx |-> RxMe] : p \in PostsOf(ch) \cap {"a2"}}

Fetched(paths) == [i \in DOMAIN paths |-> [path |-> paths[i], rx |-> NoRx]]

\* the post lists a selection of the channel hands to displayChannelContent,
\* each sorted by createdAt as the selectChannelEvent handler sorts them
LoadLists(ch) ==
  CASE ch = "order" ->
         {Fetched(<<>>), Fetched(<<"o1">>), Fetched(<<"o1", "o2", "o3">>)}
    [] ch = "siblings" ->
         {Fetched(<<>>), Fetched(<<"s1", "a1", "a2">>)}
    [] OTHER ->
         {Fetched(<<>>), Fetched(<<"p1", "r1", "g1">>)}

\* applied[e]: the doc.reactions last rendered into element e
Applied(v, fresh, rx) ==
  [e \in DOMAIN v.elems |-> IF e \in fresh THEN rx ELSE applied[e]]

Init ==
  /\ channel \in Channels
  /\ view = InitView
  /\ applied = [e \in {} |-> NoRx]
  /\ InitApp

\* a postUpdateEvent of the subscription reaches View.handleUpdate
HandleUpdate(post) ==
  LET patch == IsReactionPatch(view, post)
      touched == IF patch
                 THEN {view.activePosts[post.path]}
                 ELSE {NewElementOf(view, post)}
      v == Collect(handleUpdate(view, post, CurrUser))
  IN /\ WithinBounds(v)
     /\ view' = v
     /\ applied' = Applied(v, touched, post.rx)
     /\ UNCHANGED <<channel, appVars>>

\* the view a channel selection leaves: View.displayChannelContent has
\* returned and the objects it dropped are gone
Load(v, posts) == Collect(displayChannelContent(v, posts, CurrUser))

\* a channel selection ends in View.displayChannelContent
LoadChannel(posts) ==
  LET v == Load(view, posts)
  IN /\ WithinBounds(v)
     /\ view' = v
     /\ applied' = [e \in DOMAIN v.elems |->
                      IF e \in Range(v.activePosts) THEN NoRx ELSE applied[e]]
     /\ UNCHANGED <<channel, appVars>>

\* the user clicks Reply on a displayed post
ClickReply(e) ==
  LET v == Collect(openReplyMode(view, e))
  IN /\ e \in Displayed(view) /\ IsPost(e)
     /\ ~view.elems[e].replyMode
     /\ WithinBounds(v)
     /\ view' = v
     /\ UNCHANGED <<channel, applied, appVars>>

\* the user clicks the quit button of a displayed reply box
ClickQuit(b) ==
  LET v == Collect(quitReply(view, b))
  IN /\ b \in Displayed(view) /\ IsBox(b)
     /\ ~view.boxes[b].quitDisabled
     /\ view' = v
     /\ UNCHANGED <<channel, applied, appVars>>

Next ==
  \/ \E post \in Updates(channel) : HandleUpdate(post)
  \/ \E posts \in LoadLists(channel) : LoadChannel(posts)
  \/ \E e \in DOMAIN view.elems : ClickReply(e)
  \/ \E b \in DOMAIN view.boxes : ClickQuit(b)

Spec == Init /\ [][Next]_vars

(***************************************************************************)
(* A freshly opened empty channel that receives every post at most once    *)
(***************************************************************************)

InitOnce ==
  /\ channel \in Channels
  /\ view = Load(InitView, <<>>)
  /\ applied = [e \in {} |-> NoRx]
  /\ InitApp

\* handleUpdate registers every post it is given in activePosts, so the
\* posts not yet delivered are those activePosts does not hold
NextOnce ==
  \/ \E post \in Updates(channel) :
       /\ ~MapHas(view.activePosts, post.path)
       /\ HandleUpdate(post)
  \/ \E e \in DOMAIN view.elems : ClickReply(e)
  \/ \E b \in DOMAIN view.boxes : ClickQuit(b)

SpecOnce == InitOnce /\ [][NextOnce]_vars

(***************************************************************************)
(* The reaction controls of one post under clicks and server patches       *)
(***************************************************************************)

\* the user arrays a server payload may hold for each kind (absent when
\* the kind is not a key of doc.reactions)
Absent == <<"absent">>

ListsOf(k) ==
  CASE k = ":smile:" -> {Absent, <<>>, <<"me">>, <<"bob">>, <<"bob", "me">>}
    [] k = ":frown:" -> {<<>>, <<"bob">>}
    [] k = ":like:" -> {Absent, <<"me">>}
    [] OTHER -> {Absent, <<"me", "bob">>}

RxPayloads ==
  {RxObj([k \in {x \in Kinds : c[x] # Absent} |-> c[k]]) :
     c \in [Kinds -> UNION {ListsOf(k) : k \in Kinds}] \cap
             {f \in [Kinds -> UNION {ListsOf(k) : k \in Kinds}] :
                \A k \in Kinds : f[k] \in ListsOf(k)}}

InitR ==
  /\ channel = "order"
  /\ view = Load(InitView, <<>>)
  /\ applied = [e \in {} |-> NoRx]
  /\ InitApp

\* the user clicks an enabled reaction button of a displayed post
ClickReaction(e, k) ==
  /\ e \in Displayed(view) /\ IsPost(e)
  /\ ~view.elems[e].rx[k].disabled
  /\ view' = [view EXCEPT !.elems[e] = react(view.elems[e], k)]
  /\ UNCHANGED <<channel, applied, appVars>>

NextR ==
  \/ \E rx \in RxPayloads : HandleUpdate([path |-> "o1", rx |-> rx])
  \/ \E e \in DOMAIN view.elems, k \in Kinds : ClickReaction(e, k)

SpecR == InitR /\ [][NextR]_vars

(***************************************************************************)
(* The application: ErrorView, Model and the handlers of main.ts.  A       *)
(* handler runs to its end before anything else happens, so each one is a  *)
(* function from the state of the page (view, error banner, model, lists)  *)
(* to the state it leaves behind.                                          *)
(***************************************************************************)

\* the most timers, requests and streams a behaviour keeps alive at once
MaxTimers == 2

MaxRequests == 2

MaxStreams == 2

\* the most items a list of the page holds
MaxItems == 2

\* the state all handlers work on
World(v, ev, m, p) == [view |-> v, ev |-> ev, model |-> m, page |-> p]

Here == World(view, errorView, model, page)

\* the id a new timer, request or stream gets
FreshId(used) == CHOOSE i \in 1..(Cardinality(used) + 1) : i \notin used

MapDrop(f, i) == [j \in DOMAIN f \ {i} |-> f[j]]

Unbound == [on |-> FALSE, event |-> NoEvent, reverse |-> NoEvent]

\* this.controller.abort(); this.controller = new AbortController()
AbortListeners(ev) == [ev EXCEPT !.bound = Unbound]

\* ErrorView.show
show(ev) ==
  [AbortListeners(ev) EXCEPT !.visible = TRUE,
                             !.retryHidden = TRUE,
                             !.plain = TRUE]

\* the default of the parameter secondsBeforeRetry of showRetriableError
secondsBeforeRetry == 10

\* ErrorView.startCountdown: an interval is set whose id no field keeps
startCountdown(ev, seconds) ==
  [ev EXCEPT !.countdowns = @ \cup {seconds}]

\* ErrorView.showRetriableError: the timer of an earlier call is left alone
showRetriableError(ev, event, reverseEvent) ==
  LET id == FreshId(DOMAIN ev.timers)
  IN startCountdown(
       [AbortListeners(ev) EXCEPT
          !.visible = TRUE,
          !.retryHidden = FALSE,
          !.bound = [on |-> TRUE, event |-> event, reverse |-> reverseEvent],
          !.timers = MapSet(ev.timers, id, event),
          !.timeoutId = id],
       secondsBeforeRetry)

\* ErrorView.close without a reverse event: the timer of timeoutId is
\* cleared and the bar hidden; listeners stay
closeBar(ev) ==
  [ev EXCEPT !.timers = MapDrop(ev.timers, ev.timeoutId),
             !.timeoutId = 0,
             !.visible = FALSE]

\* Model.abortPreviousRequests: the fetches that carry controller.signal
\* are aborted
abortPreviousRequests(m) ==
  [m EXCEPT !.requests =
     {IF r.signal THEN [r EXCEPT !.aborted = TRUE] ELSE r : r \in m.requests}]

\* Model.unsubscribeFromPosts
unsubscribeFromPosts(m) ==
  [m EXCEPT !.streams = MapDrop(m.streams, m.sse), !.sse = 0]

\* Model.subscribeToPosts: sseController is overwritten, not aborted
subscribeToPosts(m, ch) ==
  LET id == FreshId(DOMAIN m.streams)
  IN [m EXCEPT !.streams = MapSet(m.streams, id, ch), !.sse = id]

\* a fetch in flight: the model method, the event whose handler awaits it,
\* whether it carries controller.signal and whether that was aborted
Request(m, kind, event, signal) ==
  [id |-> FreshId({r.id : r \in m.requests}), kind |-> kind, event |-> event,
   signal |-> signal, aborted |-> FALSE]

Fetch(m, kind, event, signal) ==
  [m EXCEPT !.requests = @ \cup {Request(m, kind, event, signal)}]

\* what a fetch ends with: the value of a success, or the message of the
\* error typedFetch throws (response.statusText, "Failed to fetch" of a
\* network failure); an aborted fetch rejects with the abort reason
Outcomes ==
  {"ok", "Failed to fetch", "Not Found", "Unauthorized",
   "Precondition Failed", "Internal Server Error"}

OutcomesOf(r) == IF r.aborted THEN {"aborted"} ELSE Outcomes

\* the logout-attempt handler up to the fetch of model.logout, which throws
\* before any fetch when no token is held
OnLogoutAttempt(w) ==
  LET m1 == abortPreviousRequests(w.model)
      ev1 == closeBar(w.ev)
  IN [w EXCEPT !.ev = ev1,
               !.model = IF m1.bearerToken
                         THEN Fetch(m1, "logout", Event("logout-attempt", "", "", 0), FALSE)
                         ELSE m1]

\* the reactEvent handler up to the fetch of model.doReaction
OnReact(w, e) ==
  [w EXCEPT !.ev = closeBar(w.ev),
            !.model = Fetch(w.model, "doReaction", e, FALSE)]

\* the subscriptionErrorEvent handler
OnSubscriptionError(w) == [w EXCEPT !.ev = show(w.ev)]

\* ContainerItem after its constructor: dataset.id, the label, the name of
\* the parent workspace, the pending flag, whether the input is shown, the
\* text in the input and the text of the inline error
NewItem(id, name, parentName) ==
  [id |-> id, name |-> name, parent |-> parentName, disabled |-> FALSE,
   input |-> FALSE, value |-> "", error |-> ""]

\* ContainerItem.disableItem, enableItem, showError and the edit button
disableItem(it) == [it EXCEPT !.disabled = TRUE]

enableItem(it) == [it EXCEPT !.disabled = FALSE, !.error = ""]

showError(it, msg) == [it EXCEPT !.error = msg]

clickEditBtn(it) == [it EXCEPT !.name = "", !.input = TRUE]

\* querySelector(`[data-id="${uuid}"]`) in a list: the index, 0 if none
ItemIndex(list, uuid) ==
  IF \E i \in DOMAIN list : list[i].id = uuid
  THEN CHOOSE i \in DOMAIN list : list[i].id = uuid
  ELSE 0

RemoveAt(list, i) == [j \in 1..(Len(list) - 1) |-> IF j < i THEN list[j] ELSE list[j + 1]]

\* the ids of the items of the page and of the events still held by a
\* request, a timer or a listener: crypto.randomUUID() repeats none
UsedIds(w) ==
  {it.id : it \in Range(w.page.workspaces) \cup Range(w.page.channels)}
    \cup {r.event.uuid : r \in w.model.requests}
    \cup {w.ev.timers[t].uuid : t \in DOMAIN w.ev.timers}
    \cup {w.ev.bound.event.uuid, w.ev.bound.reverse.uuid}

\* path.split("/")[i] of a document path, held as the list of its parts
\* after the leading "/": undefined when the path has fewer parts
PathPart(path, i) == IF i \in DOMAIN path THEN path[i] ELSE "undefined"

WorkspacePath(ws) == <<ws>>

ChannelPath(ws, ch) == <<ws, "channels", ch>>

\* the first loop removes nothing
KeepLoopKeepsAll(children, paths, key, i) ==
  <<children, IF Len(children) < Len(paths) THEN Len(children) ELSE Len(paths)>>

\* the first loop of displayAllWorkspaces and displayAllChannels: the item
\* at index i is removed while its name differs from part key of the path at
\* the same index; after a removal i-- and the i++ of the loop leave i where
\* it is.  The result is the list left and i.
RECURSIVE KeepLoop(_, _, _, _)
KeepLoop(children, paths, key, i) ==
  IF i < Len(children) /\ i < Len(paths)
  THEN IF PathPart(paths[i + 1], key) # children[i + 1].name
       THEN KeepLoop(RemoveAt(children, i + 1), paths, key, (i - 1) + 1)
       ELSE KeepLoop(children, paths, key, i + 1)
  ELSE <<children, i>>

\* the second loop: the paths from index i on get new items, which show
\* part label of their path
RECURSIVE AppendLoop(_, _, _, _, _, _)
AppendLoop(children, paths, label, parentName, used, i) ==
  IF i < Len(paths)
  THEN LET id == FreshId(used)
       IN AppendLoop(Append(children,
                            NewItem(id, PathPart(paths[i + 1], label), parentName)),
                     paths, label, parentName, used \cup {id}, i + 1)
  ELSE children

\* the third loop: the items from index i on are removed
RECURSIVE RemoveLoop(_, _)
RemoveLoop(children, i) ==
  IF i < Len(children)
  THEN RemoveLoop(RemoveAt(children, i + 1), (i - 1) + 1)
  ELSE children

\* the three loops one after the other
MergeItems(items, paths, key, label, parentName, used) ==
  LET kept == KeepLoop(items, paths, key, 0)
      children == kept[1]
      i == kept[2]
  IN IF i < Len(paths)
     THEN AppendLoop(children, paths, label, parentName, used, i)
     ELSE IF i < Len(children) THEN RemoveLoop(children, i) ELSE children

\* View.displayAllWorkspaces
displayAllWorkspaces(w, paths) ==
  [w EXCEPT !.page.workspaces =
     MergeItems(w.page.workspaces, paths, 3, 1, "", UsedIds(w))]

\* View.displayAllChannels
displayAllChannels(w, paths, workspaceName) ==
  [w EXCEPT !.page.channels =
     MergeItems(w.page.channels, paths, 3, 3, workspaceName, UsedIds(w))]

\* View.updateWorkspace and updateChannel on the list named by field; the
\* result when the item is in the list (the methods throw when not)
updateItem(w, field, uuid, msg) ==
  LET list == w.page[field]
      i == ItemIndex(list, uuid)
      it == enableItem(list[i])
  IN [w EXCEPT !.page[field][i] = IF msg # "" THEN showError(it, msg) ELSE it]

\* the item is enabled and shows the message, its editor stays closed
reopenItemKeepsClosed(w, field, uuid, errorMsg) == updateItem(w, field, uuid, errorMsg)

\* View.reopenWorkspace and reopenChannel
reopenItem(w, field, uuid, errorMsg) ==
  LET list == w.page[field]
      i == ItemIndex(list, uuid)
  IN [w EXCEPT !.page[field][i] =
        showError(clickEditBtn(enableItem(list[i])), errorMsg)]

\* View.deleteWorkspace and deleteChannel
deleteItem(w, field, uuid) ==
  [w EXCEPT !.page[field] = RemoveAt(@, ItemIndex(@, uuid))]

HasItem(w, field, uuid) == ItemIndex(w.page[field], uuid) # 0

ListOf(isWorkspace) == IF isWorkspace THEN "workspaces" ELSE "channels"

\* View.clearChannelList
clearChannelList(w) == [w EXCEPT !.page.channels = <<>>]

\* ChannelView.disable, enable and setWorkspace
disableChannelView(w) == [w EXCEPT !.page.channelViewEnabled = FALSE]

enableChannelView(w) == [w EXCEPT !.page.channelViewEnabled = TRUE]

setWorkspace(w, ws) == [w EXCEPT !.page.currWorkspace = ws]

\* View.clearContentArea and displayChannelContent on the whole page
ClearContent(w) == [w EXCEPT !.view = Collect(clearContentArea(w.view))]

DisplayContent(w, channelName, posts) ==
  [w EXCEPT !.view = Load(w.view, posts), !.page.title = channelName]

\* the model methods that throw "Not logged in" before they fetch, and
\* the ones that pass controller.signal to their fetch
ChecksToken ==
  {"getWorkspaces", "putWorkspace", "deleteWorkspace", "getChannels",
   "createChannelsDocument", "putChannel", "deleteChannel",
   "putPostsDocument", "getAllPosts", "logout"}

Abortable == {"getWorkspaces", "putWorkspace", "getChannels", "getAllPosts"}

Throws(m, kind) == kind \in ChecksToken /\ ~m.bearerToken

\* a model method called for the handler of event: the fetch it starts
Call(m, kind, event) == Fetch(m, kind, event, kind \in Abortable)

\* the reverseCreateEvent and reverseDeleteEvent handlers
OnReverseCreate(w, e) ==
  IF HasItem(w, ListOf(e.isWorkspace), e.uuid)
  THEN reopenItem(w, ListOf(e.isWorkspace), e.uuid, e.msg)
  ELSE w

OnReverseDelete(w, e) ==
  IF HasItem(w, ListOf(e.isWorkspace), e.uuid)
  THEN updateItem(w, ListOf(e.isWorkspace), e.uuid, e.msg)
  ELSE w

\* the selectWorkspaceEvent handler up to its fetch; the content area is
\* cleared once the fetch is on its way
OnSelectWorkspace(w, e) ==
  LET w1 == [w EXCEPT !.model = abortPreviousRequests(w.model),
                      !.ev = closeBar(w.ev)]
  IN IF Throws(w1.model, "getChannels") THEN w1
     ELSE ClearContent([w1 EXCEPT !.model = Call(w1.model, "getChannels", e)])

\* the selectChannelEvent handler up to the fetch of getAllPosts, whose
\* throw ends in the last branch of the handler's catch
OnSelectChannel(w, e) ==
  LET m1 == subscribeToPosts(
              unsubscribeFromPosts(abortPreviousRequests(w.model)), e.ch)
      ev1 == closeBar(w.ev)
  IN IF Throws(m1, "getAllPosts")
     THEN [w EXCEPT !.model = m1, !.ev = show(ev1)]
     ELSE [w EXCEPT !.model = Call(m1, "getAllPosts", e), !.ev = ev1]

\* the create and delete handlers: the banner is closed and one fetch made
OnRequest(w, e, kind) ==
  LET w1 == [w EXCEPT !.ev = closeBar(w.ev)]
  IN IF Throws(w1.model, kind) THEN w1
     ELSE [w1 EXCEPT !.model = Call(w1.model, kind, e)]

OnRefreshWorkspace(w, e) ==
  OnRequest([w EXCEPT !.model = abortPreviousRequests(w.model)], e,
            "getWorkspaces")

OnRefreshChannel(w, e) ==
  LET w1 == [w EXCEPT !.ev = closeBar(w.ev),
                      !.model = abortPreviousRequests(w.model)]
  IN IF Throws(w1.model, "getChannels") THEN w1
     ELSE [w1 EXCEPT !.model = Call(w1.model, "getChannels", e)]

\* the replyModeOnEvent and replyModeOffEvent handlers, reached from the
\* Reply button of a post and the quit button of a reply box
OnReplyModeOn(w, e) ==
  [w EXCEPT !.ev = closeBar(w.ev), !.view = Collect(openReplyMode(w.view, e))]

OnReplyModeOff(w, b) ==
  [w EXCEPT !.ev = closeBar(w.ev), !.view = Collect(quitReply(w.view, b))]

\* document.dispatchEvent: the listener main.ts registered for the type
\* runs; an event of another type has none
Dispatch(w, e) ==
  CASE e.type = "logout-attempt" -> OnLogoutAttempt(w)
    [] e.type = "reactEvent" -> OnReact(w, e)
    [] e.type = "selectWorkspaceEvent" -> OnSelectWorkspace(w, e)
    [] e.type = "selectChannelEvent" -> OnSelectChannel(w, e)
    [] e.type = "createWorkspaceEvent" -> OnRequest(w, e, "putWorkspace")
    [] e.type = "createChannelEvent" -> OnRequest(w, e, "putChannel")
    [] e.type = "deleteWorkspaceEvent" -> OnRequest(w, e, "deleteWorkspace")
    [] e.type = "deleteChannelEvent" -> OnRequest(w, e, "deleteChannel")
    [] e.type = "refreshWorkspaceEvent" -> OnRefreshWorkspace(w, e)
    [] e.type = "refreshChannelEvent" -> OnRefreshChannel(w, e)
    [] e.type = "reverseCreateEvent" -> OnReverseCreate(w, e)
    [] e.type = "reverseDeleteEvent" -> OnReverseDelete(w, e)
    [] e.type = "subscriptionErrorEvent" -> OnSubscriptionError(w)
    [] e.type = "createPostEvent" -> OnRequest(w, e, "createPost")
    [] e.type = "createReplyEvent" -> OnRequest(w, e, "createReply")
    [] OTHER -> w

\* ErrorView.retry: the event is dispatched again, the listeners removed
\* and the bar closed
retry(w, event) ==
  LET w1 == Dispatch(w, event)
  IN [w1 EXCEPT !.ev = closeBar(AbortListeners(w1.ev))]

\* ErrorView.close with a reverse event, which is dispatched first
close(w, reverseEvent) ==
  LET w1 == Dispatch(w, reverseEvent)
  IN [w1 EXCEPT !.ev = closeBar(w1.ev)]

\* ErrorView.abortClose
abortClose(w, reverseEvent) ==
  close([w EXCEPT !.ev = AbortListeners(w.ev)], reverseEvent)

Show(w) == [w EXCEPT !.ev = show(w.ev)]

Retriable(w, event, reverseEvent) ==
  [w EXCEPT !.ev = showRetriableError(w.ev, event, reverseEvent)]

\* the events the handlers build for a rollback
ReverseEvent(type, msg, e, isWorkspace) ==
  [Event(type, "", "", e.uuid) EXCEPT !.msg = msg, !.isWorkspace = isWorkspace]

RefreshWorkspaceEvent == Event("refreshWorkspaceEvent", "", "", 0)

IfItem(w, field, uuid, then) == IF HasItem(w, field, uuid) THEN then ELSE w

\* the promise of model.doReaction settles (reactEvent handler)
DoneReact(w, e, o) ==
  CASE o = "ok" -> w
    [] o = "Failed to fetch" -> Retriable(w, e, EmptyEvent)
    [] o = "Unauthorized" -> OnLogoutAttempt(w)
    [] OTHER -> Show(w)

\* the promise of model.createPost settles (createPostEvent handler)
DoneCreatePost(w, e, o) ==
  CASE o = "ok" -> w
    [] o = "Failed to fetch" -> Retriable(w, e, EmptyEvent)
    [] o = "Unauthorized" -> OnLogoutAttempt(w)
    [] o = "Not Found" -> disableChannelView(clearChannelList(ClearContent(Show(w))))
    [] OTHER -> Show(w)

\* the promise of model.createReply settles (createReplyEvent handler): the
\* catch has one branch
DoneCreateReply(w, e, o) == IF o = "ok" THEN w ELSE Show(w)

\* the promise of model.logout settles: every failure becomes "Logout
\* failed", which only the login dialog shows
DoneLogout(w, o) ==
  IF o = "ok"
  THEN disableChannelView(ClearContent(clearChannelList(
         [w EXCEPT !.model.bearerToken = FALSE, !.page.loginOpen = TRUE])))
  ELSE w

\* the promise of model.getChannels settles (selectWorkspaceEvent handler):
\* the test for "Failed to fetch" stands alone, so the chain after it runs
\* to its last branch as well
DoneSelectWorkspace(w, e, o, paths) ==
  CASE o = "ok" ->
         enableChannelView(setWorkspace(displayAllChannels(w, paths, e.ws), e.ws))
    [] o = "Failed to fetch" -> Show(Retriable(w, e, RefreshWorkspaceEvent))
    [] o = "Not Found" ->
         LET w1 == disableChannelView(clearChannelList(Show(w)))
         IN IfItem(w1, "workspaces", e.uuid, deleteItem(w1, "workspaces", e.uuid))
    [] o = "Unauthorized" -> OnLogoutAttempt(w)
    [] OTHER -> Show(w)

\* the promise of model.getChannels settles (refreshChannelEvent handler)
DoneRefreshChannel(w, e, o, paths) ==
  CASE o = "ok" -> displayAllChannels(w, paths, e.ws)
    [] o = "Failed to fetch" -> Retriable(w, e, EmptyEvent)
    [] o = "Unauthorized" -> OnLogoutAttempt(w)
    [] OTHER -> Show(w)

\* the promise of model.getWorkspaces settles (refreshWorkspaceEvent
\* handler); an aborted fetch arrives as "Aborted."
DoneRefreshWorkspace(w, e, o, paths) ==
  CASE o = "ok" -> displayAllWorkspaces(w, paths)
    [] o = "Failed to fetch" -> Retriable(w, e, EmptyEvent)
    [] o = "Unauthorized" -> OnLogoutAttempt(w)
    [] OTHER -> Show(w)

\* the promise of model.getAllPosts settles (selectChannelEvent handler)
DoneSelectChannel(w, e, o, posts) ==
  CASE o = "ok" -> DisplayContent(w, e.ch, posts)
    [] o = "Failed to fetch" -> Retriable(w, e, RefreshWorkspaceEvent)
    [] o = "Not Found" ->
         LET w1 == ClearContent(Show(w))
         IN IfItem(w1, "channels", e.uuid, deleteItem(w1, "channels", e.uuid))
    [] o = "Unauthorized" -> OnLogoutAttempt(w)
    [] OTHER -> Show(w)

\* the catch of the createWorkspaceEvent and createChannelEvent handlers
CreateFailed(w, e, o, isWorkspace, exists) ==
  CASE o = "Precondition Failed" ->
         OnReverseCreate(w, ReverseEvent("reverseCreateEvent", exists, e, isWorkspace))
    [] o = "Failed to fetch" ->
         Retriable(w, e, ReverseEvent("reverseCreateEvent", "retry denied", e, isWorkspace))
    [] o = "Unauthorized" -> OnLogoutAttempt(w)
    [] OTHER ->
         LET w1 == Show(w)
         IN IfItem(w1, ListOf(isWorkspace), e.uuid,
                   deleteItem(w1, ListOf(isWorkspace), e.uuid))

\* the promise of model.putWorkspace settles: the channels document is
\* created next, in a promise the outer catch does not see
DonePutWorkspace(w, e, o) ==
  IF o = "ok"
  THEN IF Throws(w.model, "createChannelsDocument")
       THEN CreateFailed(w, e, "Not logged in", TRUE, "")
       ELSE [w EXCEPT !.model = Call(w.model, "createChannelsDocument", e)]
  ELSE CreateFailed(w, e, o, TRUE, "Workspace already exists")

\* the promise of model.createChannelsDocument settles: its catch only logs
DoneCreateChannelsDocument(w, e, o) ==
  IF o = "ok"
  THEN IfItem(w, "workspaces", e.uuid,
         ClearContent(enableChannelView(setWorkspace(
           displayAllChannels(updateItem(w, "workspaces", e.uuid, ""), <<>>, e.uuid),
           e.ws))))
  ELSE w

\* the promise of model.putChannel settles
DonePutChannel(w, e, o) ==
  IF o = "ok"
  THEN IF Throws(w.model, "putPostsDocument")
       THEN CreateFailed(w, e, "Not logged in", FALSE, "")
       ELSE [w EXCEPT !.model = Call(w.model, "putPostsDocument", e)]
  ELSE CreateFailed(w, e, o, FALSE, "Channel already exists")

\* the promise of model.putPostsDocument settles: nothing catches a failure
DonePutPostsDocument(w, e, o) ==
  IF o = "ok"
  THEN IfItem(w, "channels", e.uuid,
         LET w1 == DisplayContent(updateItem(w, "channels", e.uuid, ""), e.ch, <<>>)
         IN [w1 EXCEPT !.model = subscribeToPosts(w1.model, e.ch)])
  ELSE w

\* every failure of a deletion is taken like "Not Found"
DeleteFailedDropsItem(w, e, o, isWorkspace) ==
  LET w1 == Show(w)
  IN IfItem(w1, ListOf(isWorkspace), e.uuid,
            deleteItem(w1, ListOf(isWorkspace), e.uuid))

\* the catch of the deleteWorkspaceEvent and deleteChannelEvent handlers
DeleteFailed(w, e, o, isWorkspace) ==
  LET field == ListOf(isWorkspace)
  IN CASE o = "Not Found" ->
            LET w1 == Show(w) IN IfItem(w1, field, e.uuid, deleteItem(w1, field, e.uuid))
       [] o = "Failed to fetch" ->
            Retriable(w, e, ReverseEvent("reverseDeleteEvent",
                                         "Server not responding.", e, isWorkspace))
       [] o = "Unauthorized" ->
            LET w1 == OnLogoutAttempt(w) IN IfItem(w1, field, e.uuid, updateItem(w1, field, e.uuid, ""))
       [] OTHER ->
            LET w1 == Show(w) IN IfItem(w1, field, e.uuid, updateItem(w1, field, e.uuid, ""))

\* the promise of model.deleteWorkspace settles; a throw of its then ends
\* in the catch of the same handler
DoneDeleteWorkspace(w, e, o) ==
  IF o = "ok"
  THEN IF HasItem(w, "workspaces", e.uuid)
       THEN disableChannelView(ClearContent(clearChannelList(
              deleteItem(w, "workspaces", e.uuid))))
       ELSE DeleteFailed(w, e, "in View, workspace not found", TRUE)
  ELSE DeleteFailed(w, e, o, TRUE)

\* the promise of model.deleteChannel settles
DoneDeleteChannel(w, e, o) ==
  IF o = "ok"
  THEN IF HasItem(w, "channels", e.uuid)
       THEN ClearContent(deleteItem(w, "channels", e.uuid))
       ELSE DeleteFailed(w, e, "in View, channel not found", FALSE)
  ELSE DeleteFailed(w, e, o, FALSE)

\* the lists a fetch may answer with: the channels of a workspace, the
\* workspaces, the posts of a channel
ChannelLists(ws) ==
  {<<ChannelPath(ws, "order"), ChannelPath(ws, "siblings")>>}

WorkspaceLists == {<<>>, <<WorkspacePath("home")>>,
                   <<WorkspacePath("home"), WorkspacePath("work")>>}

PostLists(ch) == IF ch \in Channels THEN LoadLists(ch) ELSE {<<>>}

Answers(r) ==
  CASE r.kind = "getChannels" -> ChannelLists(r.event.ws)
    [] r.kind = "getWorkspaces" -> WorkspaceLists
    [] r.kind = "getAllPosts" -> PostLists(r.event.ch)
    [] OTHER -> {<<>>}

\* the continuation of the handler that awaits request r
Done(w, r, o, data) ==
  LET e == r.event
  IN CASE r.kind = "doReaction" -> DoneReact(w, e, o)
       [] r.kind = "logout" -> DoneLogout(w, o)
       [] r.kind = "getChannels" ->
            IF e.type = "selectWorkspaceEvent"
            THEN DoneSelectWorkspace(w, e, o, data)
            ELSE DoneRefreshChannel(w, e, o, data)
       [] r.kind = "getWorkspaces" -> DoneRefreshWorkspace(w, e, o, data)
       [] r.kind = "getAllPosts" -> DoneSelectChannel(w, e, o, data)
       [] r.kind = "putWorkspace" -> DonePutWorkspace(w, e, o)
       [] r.kind = "createChannelsDocument" -> DoneCreateChannelsDocument(w, e, o)
       [] r.kind = "putChannel" -> DonePutChannel(w, e, o)
       [] r.kind = "putPostsDocument" -> DonePutPostsDocument(w, e, o)
       [] r.kind = "deleteWorkspace" -> DoneDeleteWorkspace(w, e, o)
       [] r.kind = "createPost" -> DoneCreatePost(w, e, o)
       [] r.kind = "createReply" -> DoneCreateReply(w, e, o)
       [] OTHER -> DoneDeleteChannel(w, e, o)

(***************************************************************************)
(* Steps of the running page                                               *)
(***************************************************************************)

\* the page takes the state a handler leaves behind; loaded: the handler
\* rendered the posts of a channel anew
Page(w, loaded) ==
  /\ view' = w.view
  /\ errorView' = w.ev
  /\ model' = w.model
  /\ page' = w.page
  /\ applied' = [e \in DOMAIN w.view.elems |->
                   IF loaded /\ e \in Range(w.view.activePosts) THEN NoRx
                   ELSE IF e \in DOMAIN applied THEN applied[e] ELSE NoRx]

\* a step that leaves the user on the channel they were on
Becomes(w, loaded) == Page(w, loaded) /\ UNCHANGED channel

\* what the bounds allow a step to leave behind
Fits(w) ==
  /\ WithinBounds(w.view)
  /\ Cardinality(w.model.requests) <= MaxRequests
  /\ Cardinality(DOMAIN w.ev.timers) <= MaxTimers
  /\ Cardinality(DOMAIN w.model.streams) <= MaxStreams

\* the user can reach the page: the login dialog is modal
PageOpen == ~page.loginOpen

\* the user clicks an enabled reaction button of a displayed post: the
\* button is disabled and the reactEvent handled
React(e, k) ==
  LET p == CHOOSE q \in DOMAIN view.activePosts : view.activePosts[q] = e
      w == Dispatch([Here EXCEPT !.view.elems[e] = react(view.elems[e], k)],
                    ReactEvent(p, k, view.elems[e].rx[k].clicked))
  IN /\ PageOpen
     /\ e \in Displayed(view) /\ IsPost(e) /\ e \in Range(view.activePosts)
     /\ ~view.elems[e].rx[k].disabled
     /\ Fits(w) /\ Becomes(w, FALSE)

\* a fetch ends with outcome o and, on success, the list data
Complete(r, o, data) ==
  LET w == Done([Here EXCEPT !.model.requests = @ \ {r}], r, o, data)
  IN /\ r \in model.requests /\ o \in OutcomesOf(r) /\ data \in Answers(r)
     /\ Fits(w)
     /\ Becomes(w, o = "ok" /\ r.kind \in {"getAllPosts", "putPostsDocument"}
                           /\ w.view # view)

\* the timer t set by showRetriableError expires
TimerFires(t) ==
  LET fired == [errorView EXCEPT
                  !.timers = MapDrop(@, t),
                  !.timeoutId = IF @ = t THEN 0 ELSE @]
      w == retry([Here EXCEPT !.ev = fired], errorView.timers[t])
  IN /\ t \in DOMAIN errorView.timers
     /\ Fits(w) /\ Becomes(w, FALSE)

\* the callback of an interval that stands at timeRemaining runs, a second
\* after its last run: it writes "Retrying in N seconds" into the banner and
\* counts down, or ends the interval when nothing remains
CountdownTick(timeRemaining) ==
  /\ timeRemaining \in errorView.countdowns
  /\ errorView' =
       [errorView EXCEPT
          !.countdowns = IF timeRemaining <= 0
                         THEN @ \ {timeRemaining}
                         ELSE (@ \ {timeRemaining}) \cup {timeRemaining - 1}]
  /\ UNCHANGED <<channel, view, applied, model, page>>

\* the user clicks the retry button of the banner
ClickRetry ==
  LET w == retry(Here, errorView.bound.event)
  IN /\ PageOpen
     /\ errorView.visible /\ ~errorView.retryHidden /\ errorView.bound.on
     /\ Fits(w) /\ Becomes(w, FALSE)

\* the user clicks the cancel button of the banner: the listeners show()
\* added run first, they were registered before the ones now bound
ClickCancel ==
  LET w1 == IF errorView.plain THEN [Here EXCEPT !.ev = closeBar(@)] ELSE Here
      w == IF errorView.bound.on THEN abortClose(w1, errorView.bound.reverse)
           ELSE w1
  IN /\ PageOpen
     /\ errorView.visible
     /\ Fits(w) /\ Becomes(w, FALSE)

\* the open stream s delivers a post of its channel: the postUpdateEvent
\* handler runs
PushUpdate(s, post) ==
  LET v == Collect(handleUpdate(view, post, CurrUser))
      touched == IF IsReactionPatch(view, post)
                 THEN {view.activePosts[post.path]}
                 ELSE {NewElementOf(view, post)}
  IN /\ s \in DOMAIN model.streams
     /\ post.path \in PostsOf(model.streams[s])
     /\ WithinBounds(v)
     /\ view' = v
     /\ applied' = Applied(v, touched, post.rx)
     /\ UNCHANGED <<channel, appVars>>

\* the open stream s delivers data that is no post
InvalidMessage(s) ==
  /\ s \in DOMAIN model.streams
  /\ Becomes(OnSubscriptionError(Here), FALSE)

\* the stream s ends with an error: subscriptionErrorEvent, then
\* unsubscribeFromPosts on whatever sseController holds by then
StreamFails(s) ==
  LET w == OnSubscriptionError([Here EXCEPT !.model.streams = MapDrop(@, s)])
  IN /\ s \in DOMAIN model.streams
     /\ Becomes([w EXCEPT !.model = unsubscribeFromPosts(w.model)], FALSE)

\* the user clicks the logout button
ClickLogout ==
  LET w == Dispatch(Here, Event("logout-attempt", "", "", 0))
  IN /\ PageOpen
     /\ Fits(w) /\ Becomes(w, FALSE)

(***************************************************************************)
(* Steps of the user on the workspace and channel lists                    *)
(***************************************************************************)

\* the detail ContainerItem puts into its select, create and delete events
ItemEvent(prefix, field, it, name) ==
  IF field = "workspaces"
  THEN Event(prefix \o "WorkspaceEvent", name, "", it.id)
  ELSE Event(prefix \o "ChannelEvent", it.parent, name, it.id)

\* the channel the user is on: the one selected or created last ("" after
\* the selection of a workspace)
ChannelOf(field, name) == IF field = "channels" THEN name ELSE ""

\* ContainerItem.selectContainer: a click on an item whose input is hidden
SelectItem(field, i) ==
  LET it == page[field][i]
      w == Dispatch(Here, ItemEvent("select", field, it, it.name))
  IN /\ PageOpen
     /\ i \in DOMAIN page[field] /\ ~it.input
     /\ Fits(w) /\ Page(w, FALSE)
     /\ channel' = ChannelOf(field, it.name)

\* the names the user may type into the input of an item
Names == {"chain", "", "a/b"}

\* the characters of the names typed here
Chars(value) ==
  CASE value = "" -> <<>>
    [] value = "." -> <<".">>
    [] value = ".." -> <<".", ".">>
    [] value = "a.b" -> <<"a", ".", "b">>
    [] value = "/" -> <<"/">>
    [] value = "a/b" -> <<"a", "/", "b">>
    [] value = "a\\b" -> <<"a", "\\", "b">>
    [] value = "a\"b" -> <<"a", "\"", "b">>
    [] value = "chain" -> <<"c", "h", "a", "i", "n">>
    [] value = "home" -> <<"h", "o", "m", "e">>
    [] value = "work" -> <<"w", "o", "r", "k">>

\* String.prototype.includes for one character
includes(value, c) == \E k \in DOMAIN Chars(value) : Chars(value)[k] = c

\* a slash alone is taken for a name, the test of submit for one left out
InvalidWithoutSlash(value) ==
  value = "." \/ value = ".." \/ includes(value, "\\") \/ includes(value, "\"")

\* the test of submit for a name that cannot be part of a path
Invalid(value) ==
  \/ includes(value, "/")
  \/ value = "."
  \/ value = ".."
  \/ includes(value, "\\")
  \/ includes(value, "\"")

\* ContainerItem.submit on Enter or a click on the confirm button, the
\* input holding value
submit(w, field, i, value) ==
  LET it == [w.page[field][i] EXCEPT !.value = value]
  IN IF it.disabled THEN w
     ELSE IF value = "" THEN [w EXCEPT !.page[field][i] = showError(it, "Empty input")]
     ELSE IF Invalid(value)
     THEN [w EXCEPT !.page[field][i] = showError(it, "Contains invalid character")]
     ELSE Dispatch([w EXCEPT !.page[field][i] =
                      [disableItem(it) EXCEPT !.error = "", !.name = value,
                                              !.input = FALSE]],
                   ItemEvent("create", field, it, value))

SubmitItem(field, i, value) ==
  LET w == submit(Here, field, i, value)
  IN /\ PageOpen
     /\ i \in DOMAIN page[field] /\ page[field][i].input
     /\ Fits(w) /\ Page(w, FALSE)
     /\ channel' = IF value = "" \/ Invalid(value) \/ page[field][i].disabled
                   THEN channel
                   ELSE ChannelOf(field, value)

\* ContainerItem.delete without the test of the pending flag
deleteWhilePending(w, field, i) ==
  LET it == w.page[field][i]
  IN IF it.input THEN [w EXCEPT !.page[field] = RemoveAt(@, i)]
     ELSE Dispatch([w EXCEPT !.page[field][i] =
                      [disableItem(it) EXCEPT !.error = ""]],
                   ItemEvent("delete", field, it, it.name))

\* ContainerItem.delete: a click on the trash button, which is disabled
\* while the item is pending
delete(w, field, i) ==
  LET it == w.page[field][i]
  IN IF it.disabled THEN w
     ELSE IF it.input THEN [w EXCEPT !.page[field] = RemoveAt(@, i)]
     ELSE Dispatch([w EXCEPT !.page[field][i] =
                      [disableItem(it) EXCEPT !.error = ""]],
                   ItemEvent("delete", field, it, it.name))

DeleteItem(field, i) ==
  LET w == delete(Here, field, i)
  IN /\ PageOpen
     /\ i \in DOMAIN page[field] /\ ~page[field][i].disabled
     /\ Fits(w) /\ Becomes(w, FALSE)

\* ChannelView.create: a new item is appended and its edit button clicked
CreateChannelItem ==
  LET it == clickEditBtn(NewItem(FreshId(UsedIds(Here)), "", page.currWorkspace))
  IN /\ PageOpen
     /\ page.channelViewEnabled
     /\ Len(page.channels) < MaxItems
     /\ Becomes([Here EXCEPT !.page.channels = Append(@, it)], FALSE)

(***************************************************************************)
(* The error banner and the reactions of one displayed post                *)
(***************************************************************************)

\* the channel "order" of workspace "home" is selected and shows post o1;
\* its stream is open
InitE ==
  /\ channel = "order"
  /\ view = Load(InitView, Fetched(<<"o1">>))
  /\ applied = [e \in DOMAIN view.elems |-> NoRx]
  /\ errorView = InitErrorView
  /\ model = [InitModel EXCEPT !.sse = 1, !.streams = (1 :> "order")]
  /\ page = [InitPage EXCEPT
               !.workspaces = <<NewItem(1, "home", "")>>,
               !.channels = <<NewItem(2, "order", "home")>>,
               !.channelViewEnabled = TRUE,
               !.currWorkspace = "home",
               !.title = "order"]

\* the reaction the user clicks and the patches the server pushes for it
ClickKinds == {":smile:"}

SmilePatches ==
  {[path |-> "o1", rx |-> RxObj((":smile:" :> l))] :
     l \in {<<>>, <<"me">>, <<"bob", "me">>}}

NextE ==
  \/ \E e \in DOMAIN view.elems, k \in ClickKinds : React(e, k)
  \/ \E r \in model.requests, o \in Outcomes : Complete(r, o, <<>>)
  \/ \E t \in DOMAIN errorView.timers : TimerFires(t)
  \/ ClickRetry
  \/ ClickCancel
  \/ \E s \in DOMAIN model.streams, post \in SmilePatches : PushUpdate(s, post)
  \/ \E s \in DOMAIN model.streams : InvalidMessage(s)
  \/ \E s \in DOMAIN model.streams : StreamFails(s)
  \/ ClickLogout

SpecE == InitE /\ [][NextE]_vars

(***************************************************************************)
(* Selections and creations of channels with their fetches and streams     *)
(***************************************************************************)

\* the user is logged in and has selected workspace "home", whose channel
\* "order" is listed; no channel is selected yet
InitNet ==
  /\ channel = ""
  /\ view = InitView
  /\ applied = [e \in {} |-> NoRx]
  /\ errorView = InitErrorView
  /\ model = InitModel
  /\ page = [InitPage EXCEPT
               !.workspaces = <<NewItem(1, "home", "")>>,
               !.channels = <<NewItem(2, "order", "home")>>,
               !.channelViewEnabled = TRUE,
               !.currWorkspace = "home"]

\* the ends a fetch takes here: success, a failure of the server, and the
\* abort by abortPreviousRequests
NetOutcomes == {"ok", "Internal Server Error", "aborted"}

NextNet ==
  \/ \E i \in DOMAIN page.channels : SelectItem("channels", i)
  \/ \E i \in DOMAIN page.workspaces : SelectItem("workspaces", i)
  \/ CreateChannelItem
  \/ \E i \in DOMAIN page.channels : SubmitItem("channels", i, "chain")
  \/ \E r \in model.requests, o \in NetOutcomes :
       \E data \in Answers(r) : Complete(r, o, data)
  \/ ClickCancel
  \/ ClickLogout

SpecNet == InitNet /\ [][NextNet]_vars

(***************************************************************************)
(* Creations and deletions of list items with their fetches                *)
(***************************************************************************)

\* the user is logged in and has selected workspace "home", which holds the
\* channel "order"
InitItems ==
  /\ channel = ""
  /\ view = InitView
  /\ applied = [e \in {} |-> NoRx]
  /\ errorView = InitErrorView
  /\ model = InitModel
  /\ page = [InitPage EXCEPT
               !.workspaces = <<NewItem(1, "home", "")>>,
               !.channels = <<NewItem(2, "order", "home")>>,
               !.channelViewEnabled = TRUE,
               !.currWorkspace = "home"]

\* the ends a fetch takes here: success, a name that exists already, a
\* failure of the server
ItemOutcomes == {"ok", "Precondition Failed", "Internal Server Error"}

\* the fetch with the given id completes
Completes(id) ==
  \E r \in model.requests, o \in ItemOutcomes :
    r.id = id /\ Complete(r, o, <<>>)

RequestIds == 1..MaxRequests

NextItems ==
  \/ CreateChannelItem
  \/ \E i \in DOMAIN page.channels, value \in Names :
       SubmitItem("channels", i, value)
  \/ \E i \in DOMAIN page.channels : DeleteItem("channels", i)
  \/ \E id \in RequestIds : Completes(id)
  \/ ClickCancel

SpecItems == InitItems /\ [][NextItems]_vars

\* every fetch completes
FairItems == SpecItems /\ \A id \in RequestIds : WF_vars(Completes(id))

(***************************************************************************)
(* Posts and replies sent from the displayed channel                       *)
(***************************************************************************)

\* ChannelContent.createPost: Enter or the send button of the post box with
\* a message typed
SendPost ==
  LET w == Dispatch(Here, Event("createPostEvent", page.currWorkspace,
                                page.title, 0))
  IN /\ PageOpen
     /\ view.contentAttached /\ view.postBoxVisible
     /\ Fits(w) /\ Becomes(w, FALSE)

\* ReplyBox.createReply: Enter or the send button of a displayed reply box
\* with a message typed
SendReply(b) ==
  LET w == Dispatch(Here, [Event("createReplyEvent", page.currWorkspace,
                                 page.title, 0) EXCEPT !.post = b[2]])
  IN /\ PageOpen
     /\ b \in Displayed(view) /\ IsBox(b)
     /\ Fits(w) /\ Becomes(w, FALSE)

\* the user clicks Reply on a displayed post
OpenReply(e) ==
  LET w == OnReplyModeOn(Here, e)
  IN /\ PageOpen
     /\ e \in Displayed(view) /\ IsPost(e)
     /\ ~view.elems[e].replyMode
     /\ Fits(w) /\ Becomes(w, FALSE)

\* the user clicks the quit button of a displayed reply box
CloseReply(b) ==
  LET w == OnReplyModeOff(Here, b)
  IN /\ PageOpen
     /\ b \in Displayed(view) /\ IsBox(b)
     /\ ~view.boxes[b].quitDisabled
     /\ Becomes(w, FALSE)

NextSend ==
  \/ SendPost
  \/ \E b \in DOMAIN view.boxes : SendReply(b)
  \/ \E e \in DOMAIN view.elems : OpenReply(e)
  \/ \E b \in DOMAIN view.boxes : CloseReply(b)
  \/ \E r \in model.requests, o \in Outcomes : Complete(r, o, <<>>)
  \/ \E t \in DOMAIN errorView.timers : TimerFires(t)
  \/ ClickRetry
  \/ ClickCancel

SpecSend == InitE /\ [][NextSend]_vars

(***************************************************************************)
(* Names typed into the items of both lists                                *)
(***************************************************************************)

\* what the user types: names submit takes and names it rejects
TypedNames == {"a.b", "", ".", "..", "/", "a/b", "a\\b", "a\"b"}

Lists == {"workspaces", "channels"}

\* the ends a creation takes here: success, or a name that exists already
NameOutcomes == {"ok", "Precondition Failed"}

\* the user is logged in, has selected workspace "home", which holds the
\* channel "order", and has asked for a new workspace and a new channel:
\* their items are in the lists with the editor open
InitNames ==
  /\ channel = ""
  /\ view = InitView
  /\ applied = [e \in {} |-> NoRx]
  /\ errorView = InitErrorView
  /\ model = InitModel
  /\ page = [InitPage EXCEPT
               !.workspaces = <<NewItem(1, "home", ""),
                                clickEditBtn(NewItem(3, "", ""))>>,
               !.channels = <<NewItem(2, "order", "home"),
                              clickEditBtn(NewItem(4, "", "home"))>>,
               !.channelViewEnabled = TRUE,
               !.currWorkspace = "home"]

\* the user types names into the open editors and the requests end
NextNames ==
  \/ \E field \in Lists, i \in 1..(MaxItems + 1), value \in TypedNames :
       SubmitItem(field, i, value)
  \/ \E r \in model.requests, o \in NameOutcomes : Complete(r, o, <<>>)

SpecNames == InitNames /\ [][NextNames]_vars

(***************************************************************************)
(* Deletions of list items with their retries                              *)
(***************************************************************************)

\* the user is logged in and has selected workspace "home", which holds the
\* channels "order" and "siblings"
InitDelete ==
  /\ channel = ""
  /\ view = InitView
  /\ applied = [e \in {} |-> NoRx]
  /\ errorView = InitErrorView
  /\ model = InitModel
  /\ page = [InitPage EXCEPT
               !.workspaces = <<NewItem(1, "home", "")>>,
               !.channels = <<NewItem(2, "order", "home"),
                              NewItem(3, "siblings", "home")>>,
               !.channelViewEnabled = TRUE,
               !.currWorkspace = "home"]

\* the ends a deletion takes here: success, a document that is gone, no
\* answer, a failure of the server
DeleteOutcomes == {"ok", "Not Found", "Failed to fetch", "Internal Server Error"}

NextDelete ==
  \/ \E field \in Lists, i \in 1..(MaxItems + 1) : DeleteItem(field, i)
  \/ \E r \in model.requests, o \in DeleteOutcomes : Complete(r, o, <<>>)
  \/ \E t \in DOMAIN errorView.timers : TimerFires(t)
  \/ ClickRetry
  \/ ClickCancel

SpecDelete == InitDelete /\ [][NextDelete]_vars

(***************************************************************************)
(* Creations and deletions of channels with their retries                  *)
(***************************************************************************)

\* the ends a fetch takes here: success, a name that exists already, no
\* answer
PendingOutcomes == {"ok", "Precondition Failed", "Failed to fetch"}

NextPending ==
  \/ \E i \in 1..MaxItems : SubmitItem("channels", i, "chain")
  \/ \E i \in 1..MaxItems : DeleteItem("channels", i)
  \/ \E r \in model.requests, o \in PendingOutcomes : Complete(r, o, <<>>)
  \/ \E t \in DOMAIN errorView.timers : TimerFires(t)
  \/ ClickRetry
  \/ ClickCancel

SpecPending == InitNames /\ [][NextPending]_vars

(***************************************************************************)
(* Selections of workspaces and deletions of channels with their failures  *)
(***************************************************************************)

\* the ends a selection takes here: success, no answer, a document that is
\* gone, a failure of the server
SelectOutcomes == {"ok", "Failed to fetch", "Not Found", "Internal Server Error"}

\* a fetch ends as the server or the abort of its signal has it
Answered(r) ==
  \E o \in SelectOutcomes \cup {"aborted"} :
    \E data \in Answers(r) : Complete(r, o, data)

NextSelect ==
  \/ \E i \in 1..MaxItems : SelectItem("workspaces", i)
  \/ \E i \in 1..MaxItems : DeleteItem("channels", i)
  \/ \E r \in model.requests : Answered(r)
  \/ \E t \in DOMAIN errorView.timers : TimerFires(t)
  \/ ClickRetry
  \/ ClickCancel

SpecSelect == InitDelete /\ [][NextSelect]_vars

(***************************************************************************)
(* The first selection of a channel: the stream of the subscription is     *)
(* open while the fetch of the posts is on its way                         *)
(***************************************************************************)

\* the user selects a channel of the list for the first time
SelectFirst(i) ==
  /\ DOMAIN model.streams = {} /\ model.requests = {}
  /\ page.title = "no channel"
  /\ SelectItem("channels", i)

\* the stream delivers a post that is not indexed
PushNew(s, post) == ~MapHas(view.activePosts, post.path) /\ PushUpdate(s, post)

\* the fetch of the posts answers with a list of the posts of the channel
PostsArrive(r, posts) == r.kind = "getAllPosts" /\ Complete(r, "ok", posts)

NextRace ==
  \/ \E i \in 1..MaxItems : SelectFirst(i)
  \/ \E s \in DOMAIN model.streams :
       \E post \in Updates(model.streams[s]) : PushNew(s, post)
  \/ \E r \in model.requests : \E posts \in Answers(r) : PostsArrive(r, posts)

SpecRace == InitDelete /\ [][NextRace]_vars

(***************************************************************************)
(* Deletions beside the open workspace and the open channel                *)
(***************************************************************************)

\* the workspaces "home" and "work" are listed; "home" is selected and lists
\* its channels "order" and "siblings"; "order" is selected and shows o1
InitOther ==
  /\ channel = "order"
  /\ view = Load(InitView, Fetched(<<"o1">>))
  /\ applied = [e \in DOMAIN view.elems |-> NoRx]
  /\ errorView = InitErrorView
  /\ model = [InitModel EXCEPT !.sse = 1, !.streams = (1 :> "order")]
  /\ page = [InitPage EXCEPT
               !.workspaces = <<NewItem(1, "home", ""), NewItem(3, "work", "")>>,
               !.channels = <<NewItem(2, "order", "home"),
                              NewItem(4, "siblings", "home")>>,
               !.channelViewEnabled = TRUE,
               !.currWorkspace = "home",
               !.title = "order"]

NextOther ==
  \/ \E field \in Lists, i \in 1..MaxItems : DeleteItem(field, i)
  \/ \E r \in model.requests, o \in DeleteOutcomes : Complete(r, o, <<>>)
  \/ \E t \in DOMAIN errorView.timers : TimerFires(t)
  \/ ClickRetry
  \/ ClickCancel

SpecOther == InitOther /\ [][NextOther]_vars

(***************************************************************************)
(* The countdown of the retriable banner                                   *)
(***************************************************************************)

\* the ends of a reaction request here: no answer, a failure of the server
CountdownOutcomes == {"Failed to fetch", "Internal Server Error"}

NextCountdown ==
  \/ \E e \in DOMAIN view.elems, k \in ClickKinds : React(e, k)
  \/ \E r \in model.requests, o \in CountdownOutcomes : Complete(r, o, <<>>)
  \/ ClickRetry
  \/ ClickCancel
  \/ \E t \in DOMAIN errorView.timers : TimerFires(t)
  \/ \E n \in errorView.countdowns : CountdownTick(n)

SpecCountdown == InitE /\ [][NextCountdown]_vars

(***************************************************************************)
(* The lists of workspaces and channels against the lists of the server    *)
(***************************************************************************)

\* the lists of at most MaxItems elements of S
ListsUpTo(S) == UNION {[1..n -> S] : n \in 0..MaxItems}

\* the names of the workspaces and channels the server knows
ServerNames == {"order", "siblings"}

\* the lists a fetch answers with: no name twice
Incoming == {l \in ListsUpTo(ServerNames) :
               \A j, k \in DOMAIN l : j # k => l[j] # l[k]}

\* a rendered item with the label name: settled, or with its editor open
\* when the label is empty
Rendered(id, name) ==
  IF name = "" THEN clickEditBtn(NewItem(id, "", "")) ELSE NewItem(id, name, "")

\* the lists of items on the page: any labels, the ids all different
InitMerge ==
  /\ channel = ""
  /\ view = InitView
  /\ applied = [e \in {} |-> NoRx]
  /\ errorView = InitErrorView
  /\ model = InitModel
  /\ \E ws \in ListsUpTo(ServerNames \cup {""}),
        chs \in ListsUpTo(ServerNames \cup {""}) :
       page = [InitPage EXCEPT
                 !.workspaces = [k \in DOMAIN ws |-> Rendered(k, ws[k])],
                 !.channels = [k \in DOMAIN chs |-> Rendered(Len(ws) + k, chs[k])],
                 !.channelViewEnabled = TRUE,
                 !.currWorkspace = "home"]

\* the paths of the documents with the given names
WorkspacePaths(names) == [k \in DOMAIN names |-> WorkspacePath(names[k])]

ChannelPaths(ws, names) == [k \in DOMAIN names |-> ChannelPath(ws, names[k])]

\* displayAllWorkspaces and displayAllChannels are called with the list a
\* fetch brought
RenderWorkspaces(names) ==
  LET w == displayAllWorkspaces(Here, WorkspacePaths(names))
  IN Becomes(w, FALSE)

RenderChannels(names) ==
  LET w == displayAllChannels(Here, ChannelPaths(page.currWorkspace, names),
                              page.currWorkspace)
  IN Becomes(w, FALSE)

NextMerge ==
  \/ \E names \in Incoming : RenderWorkspaces(names)
  \/ \E names \in Incoming : RenderChannels(names)

SpecMerge == InitMerge /\ [][NextMerge]_vars

(***************************************************************************)
(* Properties                                                              *)
(***************************************************************************)

\* the nodes of the rendered tree: everything below the top-level list
TreeNodes(v) == Closure(v, Range(v.topLevel))

\* the elements of the rendered tree that show post p
NodesOf(v, p) == {e \in TreeNodes(v) : IsPost(e) /\ getPath(e) = p}

\* the nodes of a list that are posts, as paths
PathsIn(l) == [i \in DOMAIN SelectSeq(l, IsPost) |-> getPath(SelectSeq(l, IsPost)[i])]

\* element e sits where post p belongs: in the top-level list when p has
\* no parent, else in the replies of an element showing p's parent
RightlyPlaced(v, e) ==
  IF Parent(getPath(e)) = ""
  THEN OwnerOf(v, e) = Top
  ELSE IsPost(OwnerOf(v, e)) /\ getPath(OwnerOf(v, e)) = Parent(getPath(e))

AttachedOnce(v, p) ==
  /\ Cardinality(NodesOf(v, p)) = 1
  /\ \A e \in NodesOf(v, p) : RightlyPlaced(v, e)

ParentClosed(S) == \A p \in S : Parent(p) = "" \/ Parent(p) \in S

\* C1: once every post of a parent-closed set has been delivered exactly
\* once to handleUpdate, in any order, each of them is attached exactly once
\* in the tree, at its place, and activePosts has one entry per post.
C1_TreeComplete ==
  LET S == DOMAIN view.activePosts
  IN ParentClosed(S) =>
       /\ \A p \in S : AttachedOnce(view, p)
       /\ Cardinality({view.activePosts[p] : p \in S}) = Cardinality(S)

Sorted(l) ==
  \A i, j \in DOMAIN l :
    (i < j /\ IsPost(l[i]) /\ IsPost(l[j])) =>
      getCreateDate(l[i]) <= getCreateDate(l[j])

\* C2: every sibling list, the top-level list and the replies of every
\* post element, lists its posts in non-decreasing createdAt order.
C2_SiblingsSorted ==
  /\ Sorted(view.topLevel)
  /\ \A e \in DOMAIN view.elems : Sorted(view.elems[e].replies)

\* handleUpdate has inserted two replies into the reply list of a displayed
\* post (a channel load renders no reply list)
C2_Witness ==
  /\ view.contentAttached
  /\ \E e \in Displayed(view) :
       /\ IsPost(e)
       /\ PathsIn(view.elems[e].replies) = <<"a1", "a2">>

\* handleUpdate(post) creates an element and holds it back: the post names
\* a parent that activePosts does not hold
HeldBack(v, post) ==
  /\ ~IsReactionPatch(v, post)
  /\ Parent(post.path) # ""
  /\ ~MapHas(v.activePosts, Parent(post.path))

\* the replies to p that were delivered before p and are still detached
Orphans(v, p) ==
  {r \in DOMAIN v.activePosts :
     /\ Parent(r) = p
     /\ ~MapHas(v.activePosts, p)
     /\ OwnerOf(v, v.activePosts[r]) = None}

\* C3: a reply delivered before its parent appears in no list; the
\* handleUpdate call that later delivers the parent attaches the reply
\* as a child of the parent's element, also along a chain delivered
\* bottom-up.
C3_OrphanAttached ==
  [][\A post \in Updates(channel) :
       HandleUpdate(post) =>
         /\ HeldBack(view, post) =>
              /\ OwnerOf(view', NewElementOf(view, post)) = None
              /\ NewElementOf(view, post) \notin Displayed(view')
         /\ (~IsReactionPatch(view, post) /\ ~HeldBack(view, post)) =>
              \A r \in Orphans(view, post.path) :
                OwnerOf(view', view.activePosts[r]) = NewElementOf(view, post)]_vars

PathsOf(posts) == {posts[i].path : i \in DOMAIN posts}

\* C4: when displayChannelContent returns for a list of posts with distinct
\* paths, activePosts holds exactly posts.length entries, one per post of
\* the list, top-level or reply.
C4_IndexSize ==
  [][\A posts \in LoadLists(channel) :
       LoadChannel(posts) =>
         /\ Cardinality(DOMAIN view'.activePosts) = Len(posts)
         /\ DOMAIN view'.activePosts = PathsOf(posts)]_vars

\* post i of the list names as parent a post that comes earlier in the list
HasEarlierParent(posts, i) ==
  \E j \in 1..(i - 1) : posts[j].path = Parent(posts[i].path)

\* C5: after displayChannelContent of a list sorted by createdAt, every post
\* without parent is rendered in the top-level list and every post whose
\* parent is an earlier post of the list is rendered inside that parent's
\* replies, each once.
C5_AllRendered ==
  [][\A posts \in LoadLists(channel) :
       LoadChannel(posts) =>
         \A i \in DOMAIN posts :
           (Parent(posts[i].path) = "" \/ HasEarlierParent(posts, i)) =>
             AttachedOnce(view', posts[i].path)]_vars

\* C6: when displayChannelContent returns, activePosts holds only posts of
\* the new list, replyBuffer is empty and the reply cursor (activeReply and
\* activeReplyBox) is null.
C6_StateDiscarded ==
  [][\A posts \in LoadLists(channel) :
       LoadChannel(posts) =>
         /\ DOMAIN view'.activePosts \subseteq PathsOf(posts)
         /\ view'.replyBuffer = EmptyMap
         /\ view'.activeReply = Null
         /\ view'.activeReplyBox = None]_vars

\* C7: from every reachable view, displayChannelContent for one list and
\* then at once for another leaves the rendered tree, activePosts,
\* replyBuffer and the reply cursor as displayChannelContent for the second
\* list alone leaves them.
C7_DoubleLoad ==
  \A X \in LoadLists(channel), Y \in LoadLists(channel) :
    Load(Load(view, X), Y) = Load(view, Y)

\* a displayed channel with posts in it, a reply still buffered and an open
\* reply cursor, from which two of the lists lead to different views
C7_Witness ==
  /\ view.contentAttached
  /\ view.topLevel # <<>>
  /\ view.replyBuffer # EmptyMap
  /\ view.activeReply # Null
  /\ \E X \in LoadLists(channel), Y \in LoadLists(channel) :
       /\ Load(view, X) # Load(view, Y)
       /\ Load(view, X) # view
       /\ Load(view, Y) # view

\* the reply editors the user sees
OpenEditors(v) == {b \in Displayed(v) : IsBox(b)}

\* C8: at every point at most one reply editor is attached in the displayed
\* channel; after a Reply click on a post while another editor is open,
\* only the new editor is attached.
C8_SingleEditor == Cardinality(OpenEditors(view)) <= 1

\* handleUpdate(post) reaches its last step, replyModeOff(doc.parent): the
\* post is a new reply of the current user whose parent is in activePosts
ClosesReplyMode(v, post) ==
  /\ ~IsReactionPatch(v, post)
  /\ Parent(post.path) # ""
  /\ MapHas(v.activePosts, Parent(post.path))
  /\ CreatedBy(post.path) = CurrUser

\* the reply cursor and its editor stay as they are
CursorKept ==
  /\ view'.activeReply = view.activeReply
  /\ view'.activeReplyBox = view.activeReplyBox
  /\ OwnerOf(view', view.activeReplyBox) = OwnerOf(view, view.activeReplyBox)

\* C9: replyModeOff(postId) leaves the open editor and the cursor unchanged
\* when the cursor points to another post than postId, be it called for a
\* quit click or by handleUpdate for the user's own reply.
C9_OffOnlyForCursor ==
  [][/\ \A post \in Updates(channel) :
          (HandleUpdate(post) /\ ClosesReplyMode(view, post)
             /\ view.activeReply # Parent(post.path)) => CursorKept
     /\ \A b \in DOMAIN view.boxes :
          (ClickQuit(b) /\ view.activeReply # b[2]) => CursorKept]_vars

\* the count and the self-reacted mark a server payload asks for
ServerCount(rx, k) ==
  IF rx.present /\ k \in DOMAIN rx.lists THEN Len(rx.lists[k]) ELSE 0

ServerSelf(rx, k) ==
  rx.present /\ k \in DOMAIN rx.lists /\ CurrUser \in Range(rx.lists[k])

\* C10: for every post element and each of the four kinds, the displayed
\* count is the size of the list of the payload last rendered into the
\* element (0 if absent) and the self-reacted mark tells whether the
\* current user is in that list, whatever clicks came in between.
C10_ShowsServerState ==
  \A e \in DOMAIN view.elems :
    \A k \in Kinds :
      /\ view.elems[e].rx[k].cnt = ServerCount(applied[e], k)
      /\ view.elems[e].rx[k].clicked = ServerSelf(applied[e], k)

\* a patch and a click have both acted on an element: one kind is pending
\* and shows two users with the self mark, another kind shows none
C10_Witness ==
  \E e \in DOMAIN view.elems :
    /\ applied[e].present
    /\ view.elems[e].rx[":smile:"].disabled
    /\ view.elems[e].rx[":smile:"].cnt = 2
    /\ view.elems[e].rx[":smile:"].clicked
    /\ ~view.elems[e].rx[":like:"].disabled
    /\ view.elems[e].rx[":like:"].cnt = 0

\* the reactions patches of the post "o1" once it is displayed
Patches == {[path |-> "o1", rx |-> rx] : rx \in RxPayloads}

\* C11: a click on a reaction control that shows count 0 and no self mark
\* shows count 1 at once and makes the control pending; a patch that
\* arrives while the control is pending and reports count 0 without the
\* user leaves the displayed count at 1.
C11_OptimisticClick ==
  [][/\ \A e \in DOMAIN view.elems : \A k \in Kinds :
          (/\ ClickReaction(e, k)
           /\ view.elems[e].rx[k].cnt = 0
           /\ ~view.elems[e].rx[k].clicked)
            => /\ view'.elems[e].rx[k].cnt = 1
               /\ view'.elems[e].rx[k].disabled
     /\ \A post \in Patches : \A k \in Kinds :
          (/\ HandleUpdate(post)
           /\ IsReactionPatch(view, post)
           /\ view.elems[view.activePosts[post.path]].rx[k].disabled
           /\ ServerCount(post.rx, k) = 0)
            => view'.elems[view.activePosts[post.path]].rx[k].cnt =
                 view.elems[view.activePosts[post.path]].rx[k].cnt]_vars

\* C12: a reaction patch enables a control exactly when the control is
\* pending and the payload's self-reacted value differs from the mark the
\* control shows; otherwise the pending/enabled status is unchanged. So a
\* pending control without the mark is marked and enabled by the patch that
\* holds the user.
C12_EnablesOnDisagreement ==
  [][\A post \in Patches :
       (HandleUpdate(post) /\ IsReactionPatch(view, post)) =>
         \A k \in Kinds :
           LET e == view.activePosts[post.path]
               btn == view.elems[e].rx[k]
               after == view'.elems[e].rx[k]
           IN /\ after.disabled =
                   IF btn.disabled /\ btn.clicked # ServerSelf(post.rx, k)
                   THEN FALSE
                   ELSE btn.disabled
              /\ (btn.disabled /\ ~btn.clicked /\ ServerSelf(post.rx, k))
                   => (after.clicked /\ ~after.disabled)]_vars

\* a patch holding the user has marked one control, which is enabled, while
\* the control of another kind is pending after a click
C12_Witness ==
  \E e \in DOMAIN view.elems :
    /\ applied[e].present
    /\ ServerSelf(applied[e], ":smile:")
    /\ view.elems[e].rx[":smile:"].clicked
    /\ ~view.elems[e].rx[":smile:"].disabled
    /\ view.elems[e].rx[":celebrate:"].disabled

\* the reaction control an event of PostElement.react came from is back in
\* the state it had before the click, and enabled
RevertedIn(v, e) ==
  MapHas(v.activePosts, e.post) =>
    LET btn == v.elems[v.activePosts[e.post]].rx[e.kind]
    IN ~btn.disabled /\ btn.clicked = e.clicked

\* no attempt at the reaction of event e is under way but request r: no
\* other fetch, no retry timer, no retry listener
OnlyAttempt(e, r) ==
  /\ \A q \in model.requests \ {r} :
       ~(q.kind = "doReaction" /\ q.event.post = e.post /\ q.event.kind = e.kind)
  /\ \A t \in DOMAIN errorView.timers :
       ~(errorView.timers[t].post = e.post /\ errorView.timers[t].kind = e.kind)

\* C13: when the request of a reaction fails with something else than a
\* network failure, or the user cancels the retry banner of a failed
\* reaction request, and no other attempt at that reaction is under way,
\* the control is enabled again and shows the state it had before the click
C13_FailureReverts ==
  [][/\ \A r \in model.requests, o \in Outcomes \ {"ok", "Failed to fetch"} :
          (/\ r.kind = "doReaction"
           /\ OnlyAttempt(r.event, r)
           /\ Complete(r, o, <<>>))
            => RevertedIn(view', r.event)
     /\ \A e \in {errorView.bound.event} :
          (/\ errorView.bound.on
           /\ e.type = "reactEvent"
           /\ \A q \in model.requests :
                ~(q.kind = "doReaction" /\ q.event.post = e.post
                  /\ q.event.kind = e.kind)
           /\ Cardinality(DOMAIN errorView.timers) = 1
           /\ ClickCancel)
            => RevertedIn(view', e)]_vars

\* C17: a call of showRetriableError that is still pending (its listeners
\* are bound) ends by its own timer, the retry button or the cancel button:
\* a timer that fires while the call is pending is the timer of that call
\* and carries its event, and after any of the three the bar is closed and
\* no listener or timer of the call is left
C17_OneOutcome ==
  [][/\ \A t \in DOMAIN errorView.timers :
          (errorView.bound.on /\ TimerFires(t))
            => /\ t = errorView.timeoutId
               /\ errorView.timers[t] = errorView.bound.event
     /\ (errorView.bound.on
         /\ (ClickRetry \/ ClickCancel
             \/ \E t \in DOMAIN errorView.timers : TimerFires(t)))
          => /\ ~errorView'.visible
             /\ ~errorView'.bound.on
             /\ errorView'.timeoutId = 0]_vars

\* C18: at most one retry timer is alive at any time
C18_OneTimer == Cardinality(DOMAIN errorView.timers) <= 1

\* C19: while the banner shows a plain message (the last banner call was
\* show: the bar is visible, the retry button hidden) no retry is pending:
\* no timer is alive and no retry listener bound
C19_ShowReplacesRetry ==
  (errorView.visible /\ errorView.retryHidden)
    => (DOMAIN errorView.timers = {} /\ ~errorView.bound.on)

\* the user's last selection or creation was the selection of a channel:
\* the stream sseController holds is the one of the channel the user is on
OnSelected ==
  /\ model.sse \in DOMAIN model.streams
  /\ model.streams[model.sse] = channel

\* C14: once the user has selected a channel, a fetch of posts or a
\* channel creation that belongs to another channel changes nothing of the
\* content area when it completes, however it ends
C14_StaleIgnored ==
  [][\A r \in model.requests, o \in Outcomes \cup {"aborted"} :
       \A data \in Answers(r) :
         (/\ r.kind \in {"getAllPosts", "putChannel", "putPostsDocument"}
          /\ OnSelected
          /\ r.event.ch # channel
          /\ Complete(r, o, data))
           => (view' = view /\ page'.title = page.title)]_vars

\* C15: at most one subscription stream is open after any step, and none
\* is open after the selection of a workspace or a completed logout
C15_OneStream ==
  [][/\ Cardinality(DOMAIN model'.streams) <= 1
     /\ (\E i \in DOMAIN page.workspaces : SelectItem("workspaces", i))
          => DOMAIN model'.streams = {}
     /\ \A r \in model.requests :
          (r.kind = "logout" /\ Complete(r, "ok", <<>>))
            => DOMAIN model'.streams = {}]_vars

\* C16: the completion of a fetch that abortPreviousRequests aborted leaves
\* the banner and the lists with their inline errors as they were
C16_AbortSwallowed ==
  [][\A r \in model.requests : \A data \in Answers(r) :
       (r.aborted /\ Complete(r, "aborted", data))
         => (errorView' = errorView /\ page' = page)]_vars

\* the item with dataset.id uuid is in a list and pending
Pending(uuid) ==
  \E it \in Range(page.workspaces) \cup Range(page.channels) :
    it.id = uuid /\ it.disabled

ItemIds == 1..(MaxItems + 1)

\* C20: an item that is pending is eventually not pending any more: it is
\* settled, reopened, enabled again or removed
C20_PendingEnds == \A uuid \in ItemIds : Pending(uuid) ~> ~Pending(uuid)

\* the request a handler made in this step for the event of the given type
\* and item
Requested(type, kind, uuid, name) ==
  \E r \in model'.requests \ model.requests :
    /\ r.kind = kind /\ r.event.type = type /\ r.event.uuid = uuid
    /\ name \in {r.event.ws, r.event.ch}

\* a name with a character, other than "." and "..", and free of slash,
\* backslash and double quote
Acceptable(value) ==
  /\ value # "" /\ value # "." /\ value # ".."
  /\ \A k \in DOMAIN Chars(value) : Chars(value)[k] \notin {"/", "\\", "\""}

C22_ConflictReopens ==
  [][\A r \in model.requests :
       /\ r.kind \in {"putChannel", "putWorkspace"}
       /\ Complete(r, "Precondition Failed", <<>>)
       /\ HasItem(Here, ListOf(r.kind = "putWorkspace"), r.event.uuid)
       => LET field == ListOf(r.kind = "putWorkspace")
              i == ItemIndex(page[field], r.event.uuid)
              after == page'[field][i]
          IN /\ page[field][i].disabled
             /\ Len(page'[field]) = Len(page[field])
             /\ after.id = r.event.uuid
             /\ ~after.disabled
             /\ after.input
             /\ after.value = IF field = "channels" THEN r.event.ch ELSE r.event.ws
             /\ after.error = IF field = "channels" THEN "Channel already exists"
                                                   ELSE "Workspace already exists"]_vars

\* a channel and a workspace whose creation met a conflict: each is open for
\* editing with the name that was submitted
C22_Witness ==
  /\ \E i \in DOMAIN page.channels :
       /\ page.channels[i].error = "Channel already exists"
       /\ page.channels[i].value = "a.b" /\ page.channels[i].input
  /\ \E i \in DOMAIN page.workspaces :
       /\ page.workspaces[i].error = "Workspace already exists"
       /\ page.workspaces[i].value = "a.b" /\ page.workspaces[i].input

\* the labels of a list of items
Labels(list) == [k \in DOMAIN list |-> list[k].name]

\* C23: whatever the rendered list and the incoming list are, the call of
\* displayAllWorkspaces or displayAllChannels ends, and the list then shows
\* the incoming names in the incoming order: the same length and the same
\* name at every index.
C23_ShowsIncoming ==
  \A names \in Incoming :
    /\ Labels(displayAllWorkspaces(Here, WorkspacePaths(names)).page.workspaces)
         = names
    /\ Labels(displayAllChannels(Here, ChannelPaths(page.currWorkspace, names),
                                 page.currWorkspace).page.channels)
         = names

\* a list that was reconciled: an item that was kept stands before a new
\* one whose id became free when an item before both was removed
C23_Witness ==
  /\ Labels(page.channels) = <<"order", "siblings">>
  /\ page.channels[2].id < page.channels[1].id

\* the handlers the claims on failures speak of, by the fetch they await
HandlerFetches ==
  {"getChannels", "getWorkspaces", "getAllPosts", "putWorkspace",
   "createChannelsDocument", "putChannel", "putPostsDocument",
   "deleteWorkspace", "deleteChannel", "createPost", "createReply",
   "doReaction"}

\* C24: when the request of a select, refresh, create, delete, post, reply
\* or react handler fails with "Failed to fetch", the banner is left in
\* retriable mode: it is shown with its retry button, the retry and cancel
\* listeners are bound for the original event, and a timer is set that
\* dispatches that event again.
C24_NetworkFailureRetriable ==
  [][\A r \in model.requests :
       r.kind \in HandlerFetches /\ Complete(r, "Failed to fetch", <<>>)
       => /\ errorView'.visible /\ ~errorView'.retryHidden
          /\ errorView'.bound.on /\ errorView'.bound.event = r.event
          /\ errorView'.timeoutId \in DOMAIN errorView'.timers
          /\ errorView'.timers[errorView'.timeoutId] = r.event]_vars

\* C25: when the request of such a handler fails with "Unauthorized" while
\* the user is logged in, the handler dispatches logout-attempt: the logout
\* request is on its way afterwards.
C25_UnauthorizedLogsOut ==
  [][\A r \in model.requests :
       /\ r.kind \in HandlerFetches /\ model.bearerToken
       /\ Complete(r, "Unauthorized", <<>>)
       => \E l \in model'.requests \ model.requests : l.kind = "logout"]_vars

\* the list a deletion works on
DeletedFrom(kind) == ListOf(kind = "deleteWorkspace")

\* C26: the completion of a delete request removes the item from its list
\* only when the request succeeded or failed with "Not Found"; after
\* "Failed to fetch" the list is as it was, the item pending, and the retry
\* is offered for the delete event; when the user then cancels the retry
\* the item is enabled again where it stands.
C26_DeleteKeepsItem ==
  [][/\ \A r \in model.requests, o \in DeleteOutcomes :
          /\ r.kind \in {"deleteWorkspace", "deleteChannel"}
          /\ Complete(r, o, <<>>)
          /\ HasItem(Here, DeletedFrom(r.kind), r.event.uuid)
          => LET field == DeletedFrom(r.kind)
                 i == ItemIndex(page[field], r.event.uuid)
             IN /\ ItemIndex(page'[field], r.event.uuid) = 0
                     => o \in {"ok", "Not Found"}
                /\ o = "Failed to fetch"
                     => /\ page'[field] = page[field]
                        /\ page[field][i].disabled
                        /\ errorView'.visible /\ errorView'.bound.on
                        /\ errorView'.bound.event = r.event
                        /\ errorView'.bound.reverse.type = "reverseDeleteEvent"
                        /\ errorView'.bound.reverse.uuid = r.event.uuid
     /\ LET e == errorView.bound.reverse
            field == ListOf(e.isWorkspace)
            i == ItemIndex(page[field], e.uuid)
        IN /\ ClickCancel
           /\ errorView.bound.on /\ e.type = "reverseDeleteEvent"
           /\ HasItem(Here, field, e.uuid)
           => /\ Len(page'[field]) = Len(page[field])
              /\ \A k \in DOMAIN page[field] :
                   IF k = i
                   THEN /\ page'[field][k].id = e.uuid
                        /\ page'[field][k].name = page[field][k].name
                        /\ ~page'[field][k].disabled
                   ELSE page'[field][k] = page[field][k]]_vars

\* the deletion of "siblings" got no answer and the user cancelled the
\* retry: the item stands where it stood, enabled, behind "order"
C26_Witness ==
  /\ Len(page.channels) = 2
  /\ page.channels[2].name = "siblings"
  /\ ~page.channels[2].disabled
  /\ page.channels[2].error = "Server not responding."
  /\ ~errorView.visible

\* C27: an item of the lists is settled, editing or in error, and one that
\* shows an inline error message shows its name input as well: no message
\* stands on an item whose input is hidden.
C27_ErrorShowsInput ==
  \A field \in Lists : \A k \in DOMAIN page[field] :
    page[field][k].error # "" => page[field][k].input

\* handleUpdate attaches the element it creates for post: the post is no
\* reaction patch and its parent, if it names one, is in activePosts
Attaches(v, post) ==
  /\ ~(MapHas(v.activePosts, post.path) /\ post.rx.present)
  /\ Parent(post.path) # "" => MapHas(v.activePosts, Parent(post.path))

\* the owner of the sibling list of post
SiblingOwner(v, post) ==
  IF Parent(post.path) = "" THEN Top ELSE v.activePosts[Parent(post.path)]

\* the posts of a sibling list
PostsAmong(l) == SelectSeq(l, LAMBDA x : IsPost(x))

\* the list with e put before its first post created later than e, or at
\* the end when it has none
PlacedBeforeFirstLater(l, e) ==
  LET later == {k \in DOMAIN l : getCreateDate(l[k]) > getCreateDate(e)}
  IN IF later = {}
     THEN Append(l, e)
     ELSE InsertAt(l, CHOOSE k \in later : \A j \in later : k <= j, e)

\* C28: the element handleUpdate attaches through insertPost stands
\* immediately before the first sibling whose createdAt is strictly greater
\* than its own, at the end if there is none; a post as old as some of its
\* siblings stands behind all of them.
C28_BeforeFirstLater ==
  [][\A post \in Updates(channel) :
       HandleUpdate(post) /\ Attaches(view, post)
       => LET e == NewElementOf(view, post)
              owner == SiblingOwner(view, post)
          IN PostsAmong(Children(view', owner))
               = PlacedBeforeFirstLater(PostsAmong(Children(view, owner)), e)]_vars

\* a second element of post o2 was inserted: it stands behind the first,
\* which is as old, and before o3
C28_Witness ==
  /\ PathsIn(view.topLevel) = <<"o1", "o2", "o2", "o3">>
  /\ view.activePosts["o2"] = view.topLevel[3]

\* C29: once handleUpdate has attached a post, replyBuffer holds no entry
\* under the path of that post: its buffered child was inserted below it
\* and taken out of the buffer.
C29_BufferEmptied ==
  [][\A post \in Updates(channel) :
       HandleUpdate(post) /\ Attaches(view, post)
       => ~MapHas(view'.replyBuffer, post.path)]_vars

\* C30: an update whose path is in activePosts and whose doc has a
\* reactions field changes the reaction display of that post and nothing
\* else: the sibling lists, activePosts, replyBuffer, the reply cursor and
\* the reply box are as before, also when the post is a reply of the
\* current user.
C30_PatchOnlyReactions ==
  [][\A post \in Updates(channel) :
       /\ HandleUpdate(post)
       /\ MapHas(view.activePosts, post.path) /\ post.rx.present
       => LET t == view.activePosts[post.path]
          IN /\ t \in DOMAIN view'.elems
             /\ [view' EXCEPT !.elems[t].rx = view.elems[t].rx] = view]_vars

\* the reactions of the user's own reply a2 were patched while the reply
\* box of its parent s1 is open
C30_Witness ==
  /\ view.activeReply = "s1" /\ view.activeReplyBox # None
  /\ MapHas(view.activePosts, "a2")
  /\ applied[view.activePosts["a2"]] = RxMe
  /\ view.elems[view.activePosts["a2"]].rx[":smile:"].cnt = 1

\* the node of post p is indexed but in no list, and its parent is unknown
Detached(v, p) ==
  /\ MapHas(v.activePosts, p)
  /\ OwnerOf(v, v.activePosts[p]) = None
  /\ ~MapHas(v.activePosts, Parent(p))

\* the sibling lists the user sees are the same in v and in w
SameVisibleLists(v, w) ==
  /\ w.topLevel = v.topLevel
  /\ w.contentAttached = v.contentAttached
  /\ \A e \in Displayed(v) :
       IsPost(e) => e \in DOMAIN w.elems /\ w.elems[e].replies = v.elems[e].replies

\* element e shows the reactions of payload rx
ShowsReactions(v, e, rx) ==
  \A k \in Kinds :
    /\ v.elems[e].rx[k].cnt = ServerCount(rx, k)
    /\ v.elems[e].rx[k].clicked = ServerSelf(rx, k)

\* C31: a reply delivered before its parent is in activePosts after that
\* handleUpdate call, in no list, and the visible sibling lists are as
\* before; a reaction patch for a reply that is indexed but detached is
\* rendered into the node of the reply and leaves it indexed and detached;
\* and the handleUpdate call that attaches a detached node below its parent
\* leaves the reactions the node shows untouched.
C31_DetachedIndexed ==
  [][\A post \in Updates(channel) :
       HandleUpdate(post) =>
         /\ (/\ ~(MapHas(view.activePosts, post.path) /\ post.rx.present)
             /\ Parent(post.path) # ""
             /\ ~MapHas(view.activePosts, Parent(post.path)))
            => /\ Detached(view', post.path)
               /\ view'.activePosts[post.path] = NewElementOf(view, post)
               /\ SameVisibleLists(view, view')
         /\ (Detached(view, post.path) /\ post.rx.present)
            => /\ Detached(view', post.path)
               /\ view'.activePosts[post.path] = view.activePosts[post.path]
               /\ ShowsReactions(view', view.activePosts[post.path], post.rx)
               /\ SameVisibleLists(view, view')
         /\ \A r \in DOMAIN view.activePosts :
              (/\ Detached(view, r)
               /\ view.activePosts[r] \in DOMAIN view'.elems
               /\ OwnerOf(view', view.activePosts[r]) # None)
              => /\ IsPost(OwnerOf(view', view.activePosts[r]))
                 /\ getPath(OwnerOf(view', view.activePosts[r])) = Parent(r)
                 /\ view'.elems[view.activePosts[r]].rx
                      = view.elems[view.activePosts[r]].rx]_vars

\* the reply a2 was delivered before its parent s1 (replyBuffer names its
\* node under s1), got the user's smile, and is now displayed below s1 with
\* that smile
C31_Witness ==
  /\ MapHas(view.activePosts, "s1") /\ MapHas(view.activePosts, "a2")
  /\ view.activePosts["a2"] = PostId("a2", 1)
  /\ view.activePosts["s1"] = PostId("s1", 1)
  /\ view.elems[PostId("s1", 1)].replies = <<PostId("a2", 1)>>
  /\ MapHas(view.replyBuffer, "s1")
  /\ view.replyBuffer["s1"] = PostId("a2", 1)
  /\ PostId("a2", 1) \in Displayed(view)
  /\ view.elems[PostId("a2", 1)].rx[":smile:"].cnt = 1
  /\ view.elems[PostId("a2", 1)].rx[":smile:"].clicked


\* the items of list whose label is the incoming name at the same index, up
\* to the first index where the two differ, stand unchanged at their index
\* in result
PrefixKept(list, names, result) ==
  \A k \in DOMAIN list \cap DOMAIN names :
    (\A j \in 1..k : list[j].name = names[j])
    => k \in DOMAIN result /\ result[k] = list[k]

\* C32: whatever the rendered list and the incoming list are, a call of
\* displayAllWorkspaces or displayAllChannels leaves every rendered item
\* whose name is the incoming name at the same index, up to the first
\* mismatch, in the list as the item it was, with its data-id and state.
C32_MatchingPrefixKept ==
  \A names \in Incoming :
    /\ PrefixKept(page.workspaces, names,
                  displayAllWorkspaces(Here, WorkspacePaths(names)).page.workspaces)
    /\ PrefixKept(page.channels, names,
                  displayAllChannels(Here, ChannelPaths(page.currWorkspace, names),
                                     page.currWorkspace).page.channels)

\* the create and delete events of the item with dataset.id uuid whose
\* handler awaits a fetch
Outstanding(uuid) ==
  {r \in model.requests :
     /\ r.event.uuid = uuid
     /\ r.event.type \in {"createWorkspaceEvent", "createChannelEvent",
                          "deleteWorkspaceEvent", "deleteChannelEvent"}}

\* C33: on an item that is pending, submit with any name and delete change
\* nothing and dispatch no event, and at most one create or delete event of
\* a pending item is awaiting its fetch.
C33_PendingIgnoresActions ==
  \A field \in Lists :
    \A i \in DOMAIN page[field] :
      page[field][i].disabled =>
        /\ \A value \in TypedNames : submit(Here, field, i, value) = Here
        /\ delete(Here, field, i) = Here
        /\ Cardinality(Outstanding(page[field][i].id)) <= 1

\* two channels are pending at once, one after a submit and one after a
\* click on its trash button, each with its one event awaiting a fetch
C33_Witness ==
  \E i, j \in DOMAIN page.channels :
    /\ page.channels[i].disabled /\ page.channels[j].disabled
    /\ \E r \in Outstanding(page.channels[i].id) : r.event.type = "createChannelEvent"
    /\ \E r \in Outstanding(page.channels[j].id) : r.event.type = "deleteChannelEvent"

\* showRetriableError ran in this step: a timer was set
SetsTimer == DOMAIN errorView'.timers \ DOMAIN errorView.timers # {}

\* the banner is left as showRetriableError leaves it: shown with the retry
\* button, the listeners bound, the timer of timeoutId alive
RetriableMode(ev) ==
  /\ ev.visible /\ ~ev.retryHidden /\ ev.bound.on
  /\ ev.timeoutId \in DOMAIN ev.timers

\* an item of the page got an inline error in this step
SetsInlineError ==
  \E field \in Lists :
    \E it \in Range(page'[field]) : it.error # "" /\ it \notin Range(page[field])

\* C34: the handler of a request that failed takes one way: when it calls
\* showRetriableError it does not call show as well, so the banner is left
\* in retriable mode with the event of the request bound and no plain cancel
\* listener added; and it does not put up the banner and an inline error at
\* once.
C34_OneWayPerFailure ==
  [][\A r \in model.requests, o \in SelectOutcomes \ {"ok"} :
       (\E data \in Answers(r) : Complete(r, o, data)) =>
         /\ SetsTimer =>
              /\ RetriableMode(errorView')
              /\ errorView'.bound.event = r.event
              /\ errorView'.plain = errorView.plain
         /\ ~(SetsInlineError /\ errorView' # errorView)]_vars

\* the elements the user sees for post p
ShownFor(v, p) == {e \in Displayed(v) : IsPost(e) /\ getPath(e) = p}

\* C35: when the posts fetched for a selected channel are displayed, every
\* post of the channel that a push event of the subscription has brought
\* before is displayed exactly once afterwards, whether or not the fetched
\* list contains it.
C35_PushedPostKept ==
  [][\A r \in model.requests :
       \A posts \in Answers(r) :
         PostsArrive(r, posts) =>
           \A p \in PostsOf(r.event.ch) :
             MapHas(view.activePosts, p) => Cardinality(ShownFor(view', p)) = 1]_vars

\* C36: when handleUpdate is given a post that is in activePosts and shown
\* by one node of the rendered tree, the tree holds one node for that path
\* afterwards and activePosts still maps the path to that node, whether or
\* not the doc of the update has a reactions field.
C36_SecondDeliveryNoCopy ==
  [][\A post \in Updates(channel) :
       (/\ HandleUpdate(post)
        /\ MapHas(view.activePosts, post.path)
        /\ NodesOf(view, post.path) = {view.activePosts[post.path]})
       => /\ NodesOf(view', post.path) = {view.activePosts[post.path]}
          /\ MapHas(view'.activePosts, post.path)
          /\ view'.activePosts[post.path] = view.activePosts[post.path]]_vars

\* C37: a displayed post has its replyMode flag set exactly when the reply
\* cursor holds the path of the post and the reply box of the cursor is a
\* child of the post.
C37_ReplyModeIsEditor ==
  \A e \in Displayed(view) :
    IsPost(e) =>
      (view.elems[e].replyMode
         <=> (/\ view.activeReply = getPath(e)
              /\ view.activeReplyBox \in Range(view.elems[e].replies)))

\* C38: when the deletion of a workspace that is not the selected one, or
\* of a channel that is not the displayed one, succeeds, the item leaves its
\* list and nothing else changes: the other list, the rendered posts of the
\* content area and the enabled state of the channel controls are as before.
C38_DeleteElsewhereLocal ==
  [][\A r \in model.requests :
       (/\ Complete(r, "ok", <<>>)
        /\ \/ r.kind = "deleteWorkspace" /\ r.event.ws # page.currWorkspace
           \/ r.kind = "deleteChannel" /\ r.event.ch # page.title
        /\ HasItem(Here, DeletedFrom(r.kind), r.event.uuid))
       => /\ page' = deleteItem(Here, DeletedFrom(r.kind), r.event.uuid).page
          /\ view' = view]_vars

\* the callback of an interval writes the countdown text in this step
WritesCountdown(timeRemaining) ==
  CountdownTick(timeRemaining) /\ timeRemaining > 0

\* C39: at most one countdown runs at any time, and a countdown writes its
\* text only into a banner that is open in retriable mode: not after the
\* banner was closed and not after show(message) replaced it.
C39_OneCountdown ==
  /\ [](Cardinality(errorView.countdowns) <= 1)
  /\ [][\A n \in errorView.countdowns :
          WritesCountdown(n) => errorView.visible /\ ~errorView.retryHidden]_vars

====
